---- MODULE Spec2Model ----
(***************************************************************************)
(* Model of the Markdown preview pipeline of linux_notes_app.py:           *)
(*   - ListNestingTreeprocessor, the tree processor that tags every list   *)
(*     item of the parsed document with its nesting level;                 *)
(*   - MarkdownNotesWindow._html_to_pango, the ordered chain of re.sub     *)
(*     calls that turns the HTML of a note into Pango markup.              *)
(* Strings are sequences of one-character strings, so that the regular     *)
(* expressions of the source are matched as Python's re module matches     *)
(* them.  A document tree is the sequence of its elements in document      *)
(* order, each with its tag, the index of its parent (0 is the root) and   *)
(* its attributes in insertion order.                                      *)
(***************************************************************************)
EXTENDS Naturals, Sequences, FiniteSets, TLC

VARIABLES
    root,       \* the element tree handed to ListNestingTreeprocessor.run
    runs,       \* how many times run was applied to root
    parsed,     \* root as it was when run was first called
    once,       \* root as the first call of run returned it
    md_text,    \* the note in the editor buffer (update_markdown_preview)
    html_text,  \* the local html_text of _html_to_pango
    depth,      \* the loop variable of "for depth in range(...)"
    pc,         \* the statement of the preview pipeline that runs next
    treeprocessors, \* md.treeprocessors: the processors registered
    ran,        \* the tree processors that have run, in the order they ran
    title,      \* the title handed to sanitize_filename
    filename,   \* what sanitize_filename returned for it
    app         \* the MarkdownNotesWindow, the notes directory and the dialogs

treeVars == <<root, runs, parsed, once>>

pangoVars == <<md_text, html_text, depth, pc>>

registryVars == <<treeprocessors, ran>>

appVars == <<title, filename, app>>

vars ==
    <<root, runs, parsed, once, md_text, html_text, depth, pc, treeprocessors,
      ran, title, filename, app>>

(***************************************************************************)
(* Bounds of the model.                                                    *)
(***************************************************************************)
MaxNodes == 6

\* the value of app before MarkdownNotesWindow is constructed
NoWindow == [is_open |-> FALSE]

\* the notes of the preview pipeline hold every list tree of up to
\* MaxListNodes elements
MaxListNodes == 4

(***************************************************************************)
(* Element trees (xml.etree.ElementTree as Python-Markdown uses it).       *)
(***************************************************************************)
\* Python-Markdown's block parser creates li elements only as children of a
\* ul or ol; the model also lets a list hold a child that is not an item,
\* the case the "if li_item.tag == 'li'" test of the processor is there for
ChildTags(parentTag) ==
    IF parentTag \in {"ul", "ol"}
    THEN {"li", "blockquote"}
    ELSE {"ul", "ol", "blockquote"}

TagOf(t, i) == IF i = 0 THEN "root" ELSE t[i].tag

LevelAttr == "data-li-level"

NoTree == <<>>

\* an iteration that yields every child of element p twice
ChildrenTwice(t, p) ==
    SelectSeq([i \in 1..Len(t) |-> i], LAMBDA i : t[i].parent = p)
        \o SelectSeq([i \in 1..Len(t) |-> i], LAMBDA i : t[i].parent = p)

\* the children of element p (0: the root), in document order
Children(t, p) ==
    SelectSeq([i \in 1..Len(t) |-> i], LAMBDA i : t[i].parent = p)

\* the elements a new last element can hang under: the root and the
\* elements on the path from the root to the last element
RightmostPath(t) ==
    LET RECURSIVE Up(_)
        Up(i) == IF i = 0 THEN {0} ELSE {i} \cup Up(t[i].parent)
    IN  Up(Len(t))

\* Element.get(key): the value of the attribute, "" when it is absent
HasAttr(t, i, key) ==
    \E k \in 1..Len(t[i].attrib) : t[i].attrib[k][1] = key

GetAttr(t, i, key) ==
    IF HasAttr(t, i, key)
    THEN LET k == CHOOSE k \in 1..Len(t[i].attrib) : t[i].attrib[k][1] = key
         IN  t[i].attrib[k][2]
    ELSE ""

\* Element.set(key, value): attrib is a dict, so an existing key keeps its
\* place and gets the new value, and a new key goes last
ElementSet(t, i, key, value) ==
    [t EXCEPT ![i].attrib =
        IF HasAttr(t, i, key)
        THEN [k \in 1..Len(@) |-> IF @[k][1] = key THEN <<key, value>> ELSE @[k]]
        ELSE Append(@, <<key, value>>)]

\* str(item_level)
str(n) == ToString(n)

(***************************************************************************)
(* ListNestingTreeprocessor                                                *)
(***************************************************************************)
\* a processor that knows unordered lists only
IsListTagUnordered(tag) == tag = "ul"

\* tag in ("ul", "ol")
IsListTag(tag) == tag \in {"ul", "ol"}

\* a processor that tags every child of a list
IsItemTagAnyChild(tag) == TRUE

IsItemTag(tag) == tag = "li"

\* a processor that adds the level to the one an item already carries
SetLevelAdding(t, li_item, item_level) ==
    ElementSet(t, li_item, LevelAttr,
               IF HasAttr(t, li_item, LevelAttr)
               THEN str(item_level + 1 + CHOOSE n \in 0..(4 * MaxNodes) :
                                            str(n) = GetAttr(t, li_item, LevelAttr))
               ELSE str(item_level))

\* li_item.set("data-li-level", str(item_level))
SetLevel(t, li_item, item_level) ==
    ElementSet(t, li_item, LevelAttr, str(item_level))

\* a processor that hands the items of a nested list the level of the item
SubLevelSame(item_level) == item_level

\* the level handed to the items of a list found inside an item
SubLevel(item_level) == item_level + 1

RECURSIVE ProcessItems(_, _, _)
RECURSIVE ProcessSubElements(_, _, _)

\* the loop "for li_item in list_element" over the items still to visit
ProcessItems(t, items, item_level) ==
    IF items = <<>> THEN t
    ELSE LET li_item == Head(items) IN
         IF IsItemTag(t[li_item].tag)
         THEN ProcessItems(
                  ProcessSubElements(SetLevel(t, li_item, item_level),
                                     Children(t, li_item), item_level),
                  Tail(items), item_level)
         ELSE ProcessItems(t, Tail(items), item_level)

\* the loop "for sub_element_within_li in li_item"
ProcessSubElements(t, subs, item_level) ==
    IF subs = <<>> THEN t
    ELSE LET sub == Head(subs) IN
         IF IsListTag(t[sub].tag)
         THEN ProcessSubElements(
                  ProcessItems(t, Children(t, sub), SubLevel(item_level)),
                  Tail(subs), item_level)
         ELSE ProcessSubElements(t, Tail(subs), item_level)

process_list_items_and_their_sublists(t, list_element, item_level) ==
    ProcessItems(t, Children(t, list_element), item_level)

RECURSIVE RunOver(_, _)
\* the loop "for element in root" over the elements still to visit
RunOver(t, elements) ==
    IF elements = <<>> THEN t
    ELSE LET element == Head(elements) IN
         IF IsListTag(t[element].tag)
         THEN RunOver(process_list_items_and_their_sublists(t, element, 0),
                      Tail(elements))
         ELSE RunOver(t, Tail(elements))

RECURSIVE SetCallsItems(_, _)
RECURSIVE SetCallsSubs(_, _)

\* the items li_item.set is called on, in the order of the calls, by the
\* loop "for li_item in list_element" over the items still to visit
SetCallsItems(t, items) ==
    IF items = <<>> THEN <<>>
    ELSE IF IsItemTag(t[Head(items)].tag)
         THEN <<Head(items)>>
                  \o SetCallsSubs(t, Children(t, Head(items)))
                  \o SetCallsItems(t, Tail(items))
         ELSE SetCallsItems(t, Tail(items))

\* the same for the loop "for sub_element_within_li in li_item"
SetCallsSubs(t, subs) ==
    IF subs = <<>> THEN <<>>
    ELSE IF IsListTag(t[Head(subs)].tag)
         THEN SetCallsItems(t, Children(t, Head(subs)))
                  \o SetCallsSubs(t, Tail(subs))
         ELSE SetCallsSubs(t, Tail(subs))

RECURSIVE SetCallsOver(_, _)
\* the same for the loop "for element in root"
SetCallsOver(t, elements) ==
    IF elements = <<>> THEN <<>>
    ELSE IF IsListTag(t[Head(elements)].tag)
         THEN SetCallsItems(t, Children(t, Head(elements)))
                  \o SetCallsOver(t, Tail(elements))
         ELSE SetCallsOver(t, Tail(elements))

\* the calls of li_item.set that run(root) makes
SetCalls(t) == SetCallsOver(t, Children(t, 0))

\* a processor that walks every element of the tree (root.iter()) instead of
\* the children of the root
runEveryElement(t) == RunOver(t, [i \in 1..Len(t) |-> i])

\* ListNestingTreeprocessor.run(root): the tree it returns
run(t) == RunOver(t, Children(t, 0))

(***************************************************************************)
(* Python strings: sequences of one-character strings.                     *)
(***************************************************************************)
\* what str.strip() removes and what \s matches
Whitespace == {" ", "\n", "\t", "\r"}

UpperCase ==
    <<"A", "B", "C", "D", "E", "F", "G", "H", "I", "J", "K", "L", "M",
      "N", "O", "P", "Q", "R", "S", "T", "U", "V", "W", "X", "Y", "Z">>

LowerCase ==
    <<"a", "b", "c", "d", "e", "f", "g", "h", "i", "j", "k", "l", "m",
      "n", "o", "p", "q", "r", "s", "t", "u", "v", "w", "x", "y", "z">>

UpperSet == {UpperCase[k] : k \in 1..26}

LowerMap == [c \in UpperSet |-> LowerCase[CHOOSE k \in 1..26 : UpperCase[k] = c]]

\* matching that tells upper case from lower case
FoldNothing(c) == c

\* case folding of re.IGNORECASE
Fold(c) == IF c \in UpperSet THEN LowerMap[c] ELSE c

\* the least element of S, none when S is empty
FirstOr(S, none) ==
    IF S = {} THEN none ELSE CHOOSE p \in S : \A q \in S : p <= q

RECURSIVE Concat(_)
\* "".join(parts)
Concat(parts) ==
    IF parts = <<>> THEN <<>> ELSE Head(parts) \o Concat(Tail(parts))

\* str.strip()
strip(s) ==
    IF \A k \in 1..Len(s) : s[k] \in Whitespace THEN <<>>
    ELSE LET first == CHOOSE k \in 1..Len(s) :
                          /\ s[k] \notin Whitespace
                          /\ \A j \in 1..(k - 1) : s[j] \in Whitespace
             last  == CHOOSE k \in 1..Len(s) :
                          /\ s[k] \notin Whitespace
                          /\ \A j \in (k + 1)..Len(s) : s[j] \in Whitespace
         IN  SubSeq(s, first, last)

\* str * n
Repeat(s, n) == Concat([k \in 1..n |-> s])

\* the literal lit stands in s at position p
LitAt(s, p, lit, icase) ==
    /\ p >= 1
    /\ p + Len(lit) - 1 <= Len(s)
    /\ \A k \in 1..Len(lit) :
          \/ s[p + k - 1] = lit[k]
          \/ icase /\ Fold(s[p + k - 1]) = Fold(lit[k])

\* the text lit stands in s at position p, letter for letter
TextAt(s, p, lit) ==
    /\ p >= 1
    /\ p + Len(lit) - 1 <= Len(s)
    /\ SubSeq(s, p, p + Len(lit) - 1) = lit

\* the first position from `from` on where lit stands, 0 when there is none
Find(s, from, lit, icase) ==
    FirstOr({p \in from..(Len(s) - Len(lit) + 1) : LitAt(s, p, lit, icase)}, 0)

\* a lazy ".*?" from `from` up to position p: without re.DOTALL the "."
\* does not pass a newline
LazyStop(s, from, p, dotall) ==
    IF p = 0 THEN 0
    ELSE IF ~dotall /\ \E k \in from..(p - 1) : s[k] = "\n" THEN 0
    ELSE p

\* the position where lit stands after a lazy ".*?" that starts at `from`:
\* the first one
LazyFind(s, from, lit, icase, dotall) ==
    LazyStop(s, from, Find(s, from, lit, icase), dotall)

(***************************************************************************)
(* GLib.markup_escape_text                                                 *)
(***************************************************************************)
EscapeChar(c) ==
    CASE c = "&"  -> <<"&", "a", "m", "p", ";">>
      [] c = "<"  -> <<"&", "l", "t", ";">>
      [] c = ">"  -> <<"&", "g", "t", ";">>
      [] c = "'"  -> <<"&", "a", "p", "o", "s", ";">>
      [] c = "\"" -> <<"&", "q", "u", "o", "t", ";">>
      [] OTHER    -> <<c>>

markup_escape_text(s) == Concat([k \in 1..Len(s) |-> EscapeChar(s[k])])

(***************************************************************************)
(* The regular expressions of _html_to_pango and what re.sub does with     *)
(* them.  A pattern is a record; its kind says which shape it has:         *)
(*   "element"  open [.*?>] (.*?) close      <h1.*?>(.*?)</h1>             *)
(*   "void"     open \s*/?>                  <br\s*/?>                     *)
(*   "img"      open [^>]*> (?:</img>)?      <img[^>]*>(?:</img>)?         *)
(*   "tags"     </? (name|name) .*?>         </?(ul|ol).*?>                *)
(* A match is a record with the bounds of the match (group 0) and of       *)
(* group 1.                                                                *)
(***************************************************************************)
NoMatch == [ok |-> FALSE, from |-> 0, to |-> 0, g1from |-> 0, g1to |-> 0]

Matched(from, to, g1from, g1to) ==
    [ok |-> TRUE, from |-> from, to |-> to, g1from |-> g1from, g1to |-> g1to]

Element(open, attrs, close, icase, dotall) ==
    [kind |-> "element", open |-> open, attrs |-> attrs, close |-> close,
     names |-> {}, icase |-> icase, dotall |-> dotall]

Void(open, icase) ==
    [kind |-> "void", open |-> open, attrs |-> FALSE, close |-> <<>>,
     names |-> {}, icase |-> icase, dotall |-> FALSE]

Img(open, close, icase) ==
    [kind |-> "img", open |-> open, attrs |-> FALSE, close |-> close,
     names |-> {}, icase |-> icase, dotall |-> TRUE]

TagsOf(names, icase, dotall) ==
    [kind |-> "tags", open |-> <<"<">>, attrs |-> TRUE, close |-> <<>>,
     names |-> names, icase |-> icase, dotall |-> dotall]

\* the element that opens at p, its opening tag ending at gt, closes at c
ElementClose(p, rx, gt, c) ==
    IF c = 0 THEN NoMatch
    ELSE Matched(p, c + Len(rx.close) - 1, gt + 1, c - 1)

\* the lazy group (.*?) stops at the first close after gt
ElementGroup(s, p, rx, gt) ==
    IF gt = 0 THEN NoMatch
    ELSE ElementClose(p, rx, gt,
                      LazyFind(s, gt + 1, rx.close, rx.icase, rx.dotall))

\* open [.*?>] (.*?) close at p: the lazy ".*?" stops at the first ">"
MatchElement(s, p, rx) ==
    IF ~LitAt(s, p, rx.open, rx.icase) THEN NoMatch
    ELSE ElementGroup(s, p, rx,
                      IF rx.attrs
                      THEN LazyFind(s, p + Len(rx.open), <<">">>,
                                    rx.icase, rx.dotall)
                      ELSE p + Len(rx.open) - 1)

\* /?> at w, behind the white space
VoidEnd(s, p, w) ==
    IF TextAt(s, w, <<"/", ">">>) THEN Matched(p, w + 1, 0, 0)
    ELSE IF TextAt(s, w, <<">">>) THEN Matched(p, w, 0, 0)
    ELSE NoMatch

\* open \s*/?> at p
MatchVoid(s, p, rx) ==
    IF ~LitAt(s, p, rx.open, rx.icase) THEN NoMatch
    ELSE VoidEnd(s, p,
                 FirstOr({k \in (p + Len(rx.open))..Len(s) :
                             s[k] \notin Whitespace},
                         Len(s) + 1))

\* (?:close)? behind the ">" at gt
ImgEnd(s, p, rx, gt) ==
    IF gt = 0 THEN NoMatch
    ELSE IF LitAt(s, gt + 1, rx.close, rx.icase)
         THEN Matched(p, gt + Len(rx.close), 0, 0)
         ELSE Matched(p, gt, 0, 0)

\* open [^>]*> (?:close)? at p
MatchImg(s, p, rx) ==
    IF ~LitAt(s, p, rx.open, rx.icase) THEN NoMatch
    ELSE ImgEnd(s, p, rx, FirstOr({k \in (p + Len(rx.open))..Len(s) :
                                     s[k] = ">"}, 0))

TagsEnd(p, gt) == IF gt = 0 THEN NoMatch ELSE Matched(p, gt, 0, 0)

\* one of the names ns stands at a, and .*?> behind it
TagsName(s, p, rx, a, ns) ==
    IF ns = {} THEN NoMatch
    ELSE TagsEnd(p, LazyFind(s, a + Len(CHOOSE n \in ns : TRUE), <<">">>,
                             rx.icase, rx.dotall))

\* </? (name|name) .*?> at p
MatchTags(s, p, rx) ==
    IF ~TextAt(s, p, <<"<">>) THEN NoMatch
    ELSE TagsName(s, p, rx,
                  IF TextAt(s, p + 1, <<"/">>) THEN p + 2 ELSE p + 1,
                  {n \in rx.names :
                      LitAt(s, IF TextAt(s, p + 1, <<"/">>) THEN p + 2 ELSE p + 1,
                            n, rx.icase)})

\* the match of pattern rx that starts at p, if there is one
MatchAt(s, p, rx) ==
    CASE rx.kind = "element" -> MatchElement(s, p, rx)
      [] rx.kind = "void"    -> MatchVoid(s, p, rx)
      [] rx.kind = "img"     -> MatchImg(s, p, rx)
      [] rx.kind = "tags"    -> MatchTags(s, p, rx)

Group0(s, m) == SubSeq(s, m.from, m.to)

Group1(s, m) == SubSeq(s, m.g1from, m.g1to)

(***************************************************************************)
(* re.sub and re.search                                                    *)
(***************************************************************************)
\* what Python puts where a call that raises would have put its value
PyRaise == <<"AttributeError">>

Raised(s) == \E k \in 1..Len(s) : s[k] = "AttributeError"

\* match.group(1), which raises when re.search returned None
MatchGroup1(s, m) == IF m.ok THEN Group1(s, m) ELSE PyRaise

\* the leftmost of the matches ms
Leftmost(ms) ==
    IF \A m \in ms : ~m.ok THEN NoMatch
    ELSE CHOOSE m \in ms : m.ok /\ \A n \in ms : n.ok => m.from <= n.from

\* re.search(rx, s): the leftmost match
re_search(rx, s) == Leftmost({MatchAt(s, p, rx) : p \in 1..Len(s)})

\* r'src="([^"]*)"' and r'alt="([^"]*)"'
AttrPattern(name) ==
    Element(name \o <<"=", "\"">>, FALSE, <<"\"">>, TRUE, TRUE)

(***************************************************************************)
(* The replacements of _html_to_pango                                      *)
(***************************************************************************)
max_styled_depth == 3

\* bullets = [U+2022, '-', U+2022, '-']; "U+2022" stands for that character
bullets == <<"U+2022", "-", "U+2022", "-">>

indent_char == <<" ", " ", " ", " ", " ", " ", " ">>

\* current_indent = indent_char * depth
current_indent(d) == Repeat(indent_char, d)

\* current_bullet = bullets[depth] if depth < len(bullets) else bullets[-1]
current_bullet(d) ==
    IF d < Len(bullets) THEN bullets[d + 1] ELSE bullets[Len(bullets)]

\* pre_block_to_pango(match)
pre_block_to_pango(content) ==
    <<"<", "t", "t", ">", "\n">> \o markup_escape_text(content) \o <<"\n", "<", "/", "t", "t", ">", "\n">>

\* the src of an image tag whose src attribute is looked up without the
\* "if src_attr_match" guard
img_src_unguarded(full_tag_match) ==
    MatchGroup1(full_tag_match, re_search(AttrPattern(<<"s", "r", "c">>), full_tag_match))

\* src_attr_match.group(1) if src_attr_match else "unknown"
src_of(full_tag_match, src_attr_match) ==
    IF src_attr_match.ok THEN MatchGroup1(full_tag_match, src_attr_match)
    ELSE <<"u", "n", "k", "n", "o", "w", "n">>

\* src = src_attr_match.group(1) if src_attr_match else "unknown"
img_src(full_tag_match) ==
    src_of(full_tag_match, re_search(AttrPattern(<<"s", "r", "c">>), full_tag_match))

\* alt_attr_match.group(1) if alt_attr_match else ""
alt_of(full_tag_match, alt_attr_match) ==
    IF alt_attr_match.ok THEN MatchGroup1(full_tag_match, alt_attr_match)
    ELSE <<>>

\* alt = alt_attr_match.group(1) if alt_attr_match else ""
img_alt(full_tag_match) ==
    alt_of(full_tag_match, re_search(AttrPattern(<<"a", "l", "t">>), full_tag_match))

\* every image tag shows the alt text in monospace markers
alt_display_always(alt) == <<"<", "t", "t", ">">> \o markup_escape_text(alt) \o <<"<", "/", "t", "t", ">">>

\* alt_display = f"<tt>{GLib.markup_escape_text(alt)}</tt>" if alt
\*               else "(No alt text)"
alt_display(alt) ==
    IF alt # <<>> THEN <<"<", "t", "t", ">">> \o markup_escape_text(alt) \o <<"<", "/", "t", "t", ">">>
    ELSE <<"(", "N", "o", " ", "a", "l", "t", " ", "t", "e", "x", "t", ")">>

\* src_display = f"<tt>{GLib.markup_escape_text(src)}</tt>"
src_display(src) == <<"<", "t", "t", ">">> \o markup_escape_text(src) \o <<"<", "/", "t", "t", ">">>

\* img_to_pango_placeholder(match)
img_to_pango_placeholder(full_tag_match) ==
    <<"\n", "<", "i", ">", "[", "I", "m", "a", "g", "e", ":", " ">> \o alt_display(img_alt(full_tag_match))
        \o <<" ", "(", "s", "r", "c", ":", " ">> \o src_display(img_src(full_tag_match))
        \o <<")", "]", "<", "/", "i", ">", "\n">>

\* replacement_func = lambda m: f'\n{current_indent}{current_bullet} {m.group(1).strip()}\n'
replacement_func(d, group1) ==
    <<"\n">> \o current_indent(d) \o <<current_bullet(d), " ">>
        \o strip(group1) \o <<"\n">>

Template(before, after) ==
    [kind |-> "template", before |-> before, after |-> after, depth |-> 0]

Call(function, d) ==
    [kind |-> function, before |-> <<>>, after |-> <<>>, depth |-> d]

\* what re.sub puts in the place of match m
Replacement(rep, s, m) ==
    CASE rep.kind = "template" -> rep.before \o Group1(s, m) \o rep.after
      [] rep.kind = "text"     -> rep.before
      [] rep.kind = "pre_block_to_pango" -> pre_block_to_pango(Group1(s, m))
      [] rep.kind = "img_to_pango_placeholder"
                               -> img_to_pango_placeholder(Group0(s, m))
      [] rep.kind = "replacement_func"
                               -> replacement_func(rep.depth, Group1(s, m))

RECURSIVE Sub(_, _, _, _)

\* re.sub at the candidate position p with the match m of the pattern there
SubMatch(s, pos, rx, rep, p, m) ==
    IF m.ok
    THEN SubSeq(s, pos, p - 1) \o Replacement(rep, s, m)
             \o Sub(s, m.to + 1, rx, rep)
    ELSE SubSeq(s, pos, p) \o Sub(s, p + 1, rx, rep)

\* re.sub with p the next place from pos on where the pattern can start
SubAt(s, pos, rx, rep, p) ==
    IF p = 0 THEN SubSeq(s, pos, Len(s))
    ELSE SubMatch(s, pos, rx, rep, p, MatchAt(s, p, rx))

\* re.sub from position pos on: the matches are taken from left to right,
\* each search starting where the last match ended
Sub(s, pos, rx, rep) ==
    SubAt(s, pos, rx, rep, Find(s, pos, rx.open, rx.icase))

re_sub(rx, rep, s) == Sub(s, 1, rx, rep)

(***************************************************************************)
(* The patterns of _html_to_pango, in the order of the source              *)
(***************************************************************************)
\* r'<hN.*?>(.*?)</hN>', flags=re.IGNORECASE | re.DOTALL
heading_pattern(n) ==
    Element(<<"<", "h">> \o <<ToString(n)>>, TRUE,
            <<"<", "/", "h">> \o <<ToString(n)>> \o <<">">>, TRUE, TRUE)

\* every heading in the span of h4
heading_span_same(n) == <<"<", "s", "p", "a", "n", " ", "w", "e", "i", "g", "h", "t", "=", "\"", "b", "o", "l", "d", "\"", ">">>

heading_span(n) ==
    CASE n = 1 -> <<"<", "s", "p", "a", "n", " ", "s", "i", "z", "e", "=", "\"", "x", "x", "-", "l", "a", "r", "g", "e", "\"", " ", "w", "e", "i", "g", "h", "t", "=", "\"", "b", "o", "l", "d", "\"", ">">>
      [] n = 2 -> <<"<", "s", "p", "a", "n", " ", "s", "i", "z", "e", "=", "\"", "x", "-", "l", "a", "r", "g", "e", "\"", " ", "w", "e", "i", "g", "h", "t", "=", "\"", "b", "o", "l", "d", "\"", ">">>
      [] n = 3 -> <<"<", "s", "p", "a", "n", " ", "s", "i", "z", "e", "=", "\"", "l", "a", "r", "g", "e", "\"", " ", "w", "e", "i", "g", "h", "t", "=", "\"", "b", "o", "l", "d", "\"", ">">>
      [] n = 4 -> <<"<", "s", "p", "a", "n", " ", "w", "e", "i", "g", "h", "t", "=", "\"", "b", "o", "l", "d", "\"", ">">>
      [] n = 5 -> <<"<", "s", "p", "a", "n", " ", "w", "e", "i", "g", "h", "t", "=", "\"", "b", "o", "l", "d", "\"", " ", "s", "i", "z", "e", "=", "\"", "s", "m", "a", "l", "l", "\"", ">">>
      [] n = 6 -> <<"<", "s", "p", "a", "n", " ", "w", "e", "i", "g", "h", "t", "=", "\"", "b", "o", "l", "d", "\"", " ", "s", "i", "z", "e", "=", "\"", "x", "-", "s", "m", "a", "l", "l", "\"", ">">>

\* r'<span ...>\1</span>\n'
heading_replacement(n) == Template(heading_span(n), <<"<", "/", "s", "p", "a", "n", ">", "\n">>)

\* r'<strong>(.*?)</strong>' -> r'<b>\1</b>'
strong_pattern == Element(<<"<", "s", "t", "r", "o", "n", "g", ">">>, FALSE, <<"<", "/", "s", "t", "r", "o", "n", "g", ">">>, TRUE, TRUE)

\* r'<em>(.*?)</em>' -> r'<i>\1</i>'
em_pattern == Element(<<"<", "e", "m", ">">>, FALSE, <<"<", "/", "e", "m", ">">>, TRUE, TRUE)

\* r'<b>(.*?)</b>' -> r'<b>\1</b>'
b_pattern == Element(<<"<", "b", ">">>, FALSE, <<"<", "/", "b", ">">>, TRUE, TRUE)

\* r'<i>(.*?)</i>' -> r'<i>\1</i>'
i_pattern == Element(<<"<", "i", ">">>, FALSE, <<"<", "/", "i", ">">>, TRUE, TRUE)

\* the bold tags in upper case
b_replacement_upper == Template(<<"<", "B", ">">>, <<"<", "/", "B", ">">>)

b_replacement == Template(<<"<", "b", ">">>, <<"<", "/", "b", ">">>)

i_replacement == Template(<<"<", "i", ">">>, <<"<", "/", "i", ">">>)

\* r'<pre><code.*?>(.*?)</code></pre>'
pre_code_pattern ==
    Element(<<"<", "p", "r", "e", ">", "<", "c", "o", "d", "e">>, TRUE, <<"<", "/", "c", "o", "d", "e", ">", "<", "/", "p", "r", "e", ">">>, TRUE, TRUE)

\* a rule for pre that takes the monospace spans for pre blocks
pre_pattern_tt == Element(<<"<", "t", "t">>, TRUE, <<"<", "/", "t", "t", ">">>, TRUE, TRUE)

\* r'<pre.*?>(.*?)</pre>'
pre_pattern == Element(<<"<", "p", "r", "e">>, TRUE, <<"<", "/", "p", "r", "e", ">">>, TRUE, TRUE)

\* r'<code>(.*?)</code>' -> r'<tt>\1</tt>'
code_pattern == Element(<<"<", "c", "o", "d", "e", ">">>, FALSE, <<"<", "/", "c", "o", "d", "e", ">">>, TRUE, TRUE)

code_replacement == Template(<<"<", "t", "t", ">">>, <<"<", "/", "t", "t", ">">>)

\* r'<p.*?>(.*?)</p>' -> r'\1\n\n'
p_pattern == Element(<<"<", "p">>, TRUE, <<"<", "/", "p", ">">>, TRUE, TRUE)

p_replacement == Template(<<>>, <<"\n", "\n">>)

\* r'<br\s*/?>' -> '\n', flags=re.IGNORECASE
br_pattern == Void(<<"<", "b", "r">>, TRUE)

br_replacement == [kind |-> "text", before |-> <<"\n">>, after |-> <<>>, depth |-> 0]

\* r'<img[^>]*>(?:</img>)?', flags=re.IGNORECASE | re.S
img_pattern == Img(<<"<", "i", "m", "g">>, <<"<", "/", "i", "m", "g", ">">>, TRUE)

\* the pattern of depth 0 at every turn of the loop
pattern_shallowest(d) ==
    Element(<<"<", "l", "i", " ", "d", "a", "t", "a", "-", "l", "i", "-", "l", "e", "v", "e", "l", "=", "\"", "0", "\"", ">">>, FALSE, <<"<", "/", "l", "i", ">">>, TRUE, TRUE)

\* r'<li data-li-level="' + str(depth) + r'">(.*?)</li>', flags=re.S | re.I
pattern(d) ==
    Element(<<"<", "l", "i", " ", "d", "a", "t", "a", "-", "l", "i", "-", "l", "e", "v", "e", "l", "=", "\"">> \o <<str(d)>> \o <<"\"", ">">>, FALSE,
            <<"<", "/", "l", "i", ">">>, TRUE, TRUE)

\* r'</?(ul|ol).*?>' -> '', flags=re.I | re.S
ul_ol_pattern == TagsOf({<<"u", "l">>, <<"o", "l">>}, TRUE, TRUE)

\* a pattern that matches every tag
any_tag_pattern == TagsOf({<<>>}, TRUE, TRUE)

\* r'</?li.*?>' -> '', flags=re.I | re.S
li_pattern == TagsOf({<<"l", "i">>}, TRUE, TRUE)

removed == [kind |-> "text", before |-> <<>>, after |-> <<>>, depth |-> 0]

\* r'<hr\s*/?>' -> '------------------------------\n', flags=re.IGNORECASE
hr_pattern == Void(<<"<", "h", "r">>, TRUE)

hr_replacement ==
    [kind |-> "text", before |-> <<"-", "-", "-", "-", "-", "-", "-", "-", "-", "-", "-", "-", "-", "-", "-", "-", "-", "-", "-", "-", "-", "-", "-", "-", "-", "-", "-", "-", "-", "-", "\n">>,
     after |-> <<>>, depth |-> 0]

\* a return that leaves the text untrimmed
return_untrimmed(s) == s

\* return html_text.strip()
return_value(s) == strip(s)

\* a loop that goes through the depths from the shallowest to the deepest
depth_range_ascending == [k \in 1..(max_styled_depth + 1) |-> k - 1]

\* range(max_styled_depth, -1, -1)
depth_range == [k \in 1..(max_styled_depth + 1) |-> max_styled_depth + 1 - k]

\* the place of depth d in the range
RangeIndex(d) == CHOOSE k \in 1..Len(depth_range) : depth_range[k] = d

(***************************************************************************)
(* markdown.markdown(md_text, extensions=['fenced_code', 'tables',         *)
(* 'attr_list', ListNestingExtension()]): a note is a sequence of blocks,  *)
(* and the HTML of the note is the HTML of its blocks joined by newlines.  *)
(***************************************************************************)
Block(kind, level, text, tree, parts) ==
    [kind |-> kind, level |-> level, text |-> text, tree |-> tree,
     parts |-> parts]

\* "# text" ... "###### text"
Heading(level, text) == Block("heading", level, text, <<>>, <<>>)

\* a fenced code block holding the line text
Fence(text) == Block("fence", 0, text, <<>>, <<>>)

\* a paragraph of plain text
Para(text) == Block("para", 0, text, <<>>, <<>>)

\* a list block; the text of item i is the letter Letters[i]
List(tree) == Block("list", 0, <<>>, tree, <<>>)

\* HTML that Markdown hands on as it is written; a part says whether it is
\* a tag _html_to_pango has no rule for
Html(parts) == Block("html", 0, <<>>, <<>>, parts)

\* a paragraph "lead![alt](src)lead": an image between two texts
Picture(lead, alt, src) == Block("image", 0, lead, <<>>, <<alt, src>>)

Letters == <<"A", "B", "C", "D", "E", "F", "G", "H", "J", "K", "L", "M">>

TagChars(tag) ==
    CASE tag = "ul" -> <<"u", "l">>
      [] tag = "ol" -> <<"o", "l">>
      [] tag = "li" -> <<"l", "i">>
      [] tag = "blockquote" -> <<"b", "l", "o", "c", "k", "q", "u", "o", "t", "e">>

\* the characters of an attribute name or value
AttrChars(a) ==
    CASE a = "data-li-level" -> <<"d", "a", "t", "a", "-", "l", "i", "-", "l", "e", "v", "e", "l">>
      [] OTHER -> <<a>>

\* the serializer writes the attributes in the order of attrib
AttribText(attrib) ==
    Concat([k \in 1..Len(attrib) |->
               <<" ">> \o AttrChars(attrib[k][1]) \o <<"=", "\"">>
                   \o AttrChars(attrib[k][2]) \o <<"\"">>])

RECURSIVE Serialize(_, _)
\* element i as HTML: an element without text of its own starts its children
\* on a new line, and a newline follows every block element
Serialize(t, i) ==
    LET kids == Children(t, i)
        text == IF t[i].tag = "li" THEN <<Letters[i]>> ELSE <<>>
        lead == IF text = <<>> /\ kids # <<>> THEN <<"\n">> ELSE <<>>
    IN  <<"<">> \o TagChars(t[i].tag) \o AttribText(t[i].attrib) \o <<">">>
            \o text \o lead
            \o Concat([k \in 1..Len(kids) |-> Serialize(t, kids[k]) \o <<"\n">>])
            \o <<"<", "/">> \o TagChars(t[i].tag) \o <<">">>

\* the fenced_code extension escapes the code it puts in <pre><code>
FenceEscapeChar(c) ==
    CASE c = "&"  -> <<"&", "a", "m", "p", ";">>
      [] c = "<"  -> <<"&", "l", "t", ";">>
      [] c = ">"  -> <<"&", "g", "t", ";">>
      [] c = "\"" -> <<"&", "q", "u", "o", "t", ";">>
      [] OTHER    -> <<c>>

\* the serializer escapes the value of an attribute
AttribEscape(value) ==
    Concat([k \in 1..Len(value) |-> FenceEscapeChar(value[k])])

BlockHtml(b) ==
    CASE b.kind = "heading" ->
            <<"<", "h">> \o <<ToString(b.level)>> \o <<">">> \o b.text
                \o <<"<", "/", "h">> \o <<ToString(b.level)>> \o <<">">>
      [] b.kind = "fence" ->
            <<"<", "p", "r", "e", ">", "<", "c", "o", "d", "e", ">">>
                \o Concat([k \in 1..Len(b.text) |-> FenceEscapeChar(b.text[k])])
                \o <<"\n", "<", "/", "c", "o", "d", "e", ">", "<", "/", "p", "r", "e", ">">>
      [] b.kind = "para" -> <<"<", "p", ">">> \o b.text \o <<"<", "/", "p", ">">>
      [] b.kind = "image" ->
            <<"<", "p", ">">> \o b.text \o <<"<", "i", "m", "g", " ", "a", "l", "t", "=", "\"">> \o AttribEscape(b.parts[1])
                \o <<"\"", " ", "s", "r", "c", "=", "\"">> \o AttribEscape(b.parts[2]) \o <<"\"", " ", "/", ">">>
                \o b.text \o <<"<", "/", "p", ">">>
      [] b.kind = "list" ->
            LET t == run(b.tree)
                tops == Children(t, 0)
            IN  strip(Concat([k \in 1..Len(tops) |->
                                 Serialize(t, tops[k]) \o <<"\n">>]))
      [] b.kind = "html" ->
            Concat([k \in 1..Len(b.parts) |-> b.parts[k].s])

markdown_markdown(md) ==
    strip(Concat([k \in 1..Len(md) |->
                     BlockHtml(md[k]) \o (IF k < Len(md) THEN <<"\n">> ELSE <<>>)]))

(***************************************************************************)
(* The notes the preview pipeline is run on.                               *)
(***************************************************************************)
\* the list trees the block parser builds: items only in lists, and lists
\* and blockquotes in the root, in items and in blockquotes
ListChildTags(parentTag) ==
    IF parentTag \in {"ul", "ol"} THEN {"li"} ELSE {"ul", "ol", "blockquote"}

Node(tag, parent) == [tag |-> tag, parent |-> parent, attrib |-> <<>>]

RECURSIVE TreesOfSize(_)
TreesOfSize(n) ==
    IF n = 0 THEN {<<>>}
    ELSE UNION {{Append(t, Node(tag, p)) : tag \in ListChildTags(TagOf(t, p))} :
                   <<t, p>> \in {<<t, p>> \in TreesOfSize(n - 1) \X (0..(n - 1)) :
                                    p \in RightmostPath(t)}}

ListNotes == {<<List(t)>> : t \in UNION {TreesOfSize(n) : n \in 1..MaxListNodes}}

\* - A / - B / - C / - D / - E, each nested in the one before: levels 0..4
DeepList ==
    <<Node("ul", 0), Node("li", 1), Node("ul", 2), Node("li", 3),
      Node("ul", 4), Node("li", 5), Node("ul", 6), Node("li", 7),
      Node("ul", 8), Node("li", 9)>>

\* an item that holds a blockquote with a list in it
QuotedList ==
    <<Node("ul", 0), Node("li", 1), Node("blockquote", 2), Node("ul", 3),
      Node("li", 4), Node("li", 1)>>

Part(u, s) == [u |-> u, s |-> s]

\* an item with two nested items, in an ordered list
TwoNested ==
    <<Node("ol", 0), Node("li", 1), Node("ol", 2), Node("li", 3),
      Node("li", 3), Node("li", 1)>>

\* four levels of nesting: levels 0..3
FourLevels ==
    <<Node("ul", 0), Node("li", 1), Node("ol", 2), Node("li", 3),
      Node("ul", 4), Node("li", 5), Node("ul", 6), Node("li", 7),
      Node("li", 7), Node("li", 3)>>

ListSamples ==
    { <<List(DeepList)>>, <<List(QuotedList)>>, <<List(TwoNested)>>,
      <<List(FourLevels)>> }

Title == <<"T", "i", "t", "l", "e">>

HeadingSamples ==
    { <<Heading(1, Title)>>,
      <<Heading(1, Title), Para(<<"t", "e", "x", "t">>)>>,
      <<Heading(2, <<"a">>), Heading(3, <<"b">>), Heading(4, <<"c">>),
        Heading(5, <<"d">>), Heading(6, <<"e">>)>> }

FenceSamples ==
    { <<Fence(<<"a", "<", "b">>)>>,
      <<Fence(<<"a", "&", "b">>)>>,
      <<Fence(<<"a", "b">>)>>,
      <<Para(<<"x">>), Fence(<<"i", "f", " ", "a", "<", "b", " ", "&", "&", " ", "c", ":">>), Para(<<"y">>)>> }

\* tags _html_to_pango has no rule for, around and beside elements it has
\* rules for
MixedSamples ==
    { <<Html(<<Part(TRUE, <<"<", "t", "a", "b", "l", "e", ">">>), Part(FALSE, <<"\n">>),
               Part(TRUE, <<"<", "t", "r", ">">>), Part(FALSE, <<"\n">>),
               Part(TRUE, <<"<", "t", "d", ">">>), Part(FALSE, <<"<", "s", "t", "r", "o", "n", "g", ">", "x", "<", "/", "s", "t", "r", "o", "n", "g", ">">>),
               Part(TRUE, <<"<", "/", "t", "d", ">">>), Part(FALSE, <<"\n">>),
               Part(TRUE, <<"<", "t", "d", ">">>),
               Part(FALSE, <<"<", "e", "m", ">", "y", "<", "/", "e", "m", ">", " ", "<", "c", "o", "d", "e", ">", "z", "<", "/", "c", "o", "d", "e", ">", "<", "b", "r", " ", "/", ">">>),
               Part(TRUE, <<"<", "/", "t", "d", ">">>), Part(FALSE, <<"\n">>),
               Part(TRUE, <<"<", "/", "t", "r", ">">>), Part(FALSE, <<"\n">>),
               Part(TRUE, <<"<", "/", "t", "a", "b", "l", "e", ">">>)>>)>>,
      <<Html(<<Part(FALSE, <<"<", "h", "1", ">", "T", "<", "/", "h", "1", ">", "\n">>),
               Part(TRUE, <<"<", "a", " ", "h", "r", "e", "f", "=", "\"", "u", "\"", ">">>),
               Part(FALSE, <<"<", "i", "m", "g", " ", "a", "l", "t", "=", "\"", "c", "\"", " ", "s", "r", "c", "=", "\"", "p", ".", "p", "n", "g", "\"", " ", "/", ">">>),
               Part(TRUE, <<"<", "/", "a", ">">>),
               Part(FALSE, <<"\n", "<", "p", ">", "t", "<", "/", "p", ">">>)>>)>>,
      <<Html(<<Part(TRUE, <<"<", "s", "p", "a", "n", " ", "c", "l", "a", "s", "s", "=", "\"", "k", "\"", ">">>),
               Part(FALSE, <<"<", "u", "l", ">", "\n", "<", "l", "i", " ", "d", "a", "t", "a", "-", "l", "i", "-", "l", "e", "v", "e", "l", "=", "\"", "0", "\"", ">", "A", "<", "/", "l", "i", ">", "\n", "<", "/", "u", "l", ">">>),
               Part(TRUE, <<"<", "/", "s", "p", "a", "n", ">">>),
               Part(FALSE, <<"\n", "<", "h", "r", " ", "/", ">", "\n", "<", "p", "r", "e", ">", "<", "c", "o", "d", "e", ">", "q", "\n", "<", "/", "c", "o", "d", "e", ">", "<", "/", "p", "r", "e", ">">>)>>)>>,
      <<Html(<<Part(TRUE, <<"<", "t", "d", ">">>), Part(FALSE, <<"<", "h", "2", ">", "T", "<", "/", "h", "2", ">">>),
               Part(TRUE, <<"<", "/", "t", "d", ">">>)>>)>> }

\* HTML that is cut off, unbalanced or empty
BrokenSamples ==
    { <<Html(<<Part(FALSE, <<"<", "h", "1", ">", "T", "i", "t", "l", "e">>)>>)>>,
      <<Html(<<Part(FALSE, <<"<", "/", "p", ">", "<", "p", ">", "x", "<", "p", ">", "y", "<", "/", "p", ">", "<", "/", "l", "i", ">", "<", "u", "l">>)>>)>>,
      <<Html(<<Part(FALSE, <<"<", "l", "i", " ", "d", "a", "t", "a", "-", "l", "i", "-", "l", "e", "v", "e", "l", "=", "\"", "0", "\"", ">", "A">>)>>)>>,
      <<Html(<<Part(FALSE, <<"<", "p", "r", "e", ">", "<", "c", "o", "d", "e", ">", "x", "<", "/", "p", "r", "e", ">", " ", "<", "c", "o", "d", "e", ">", "y", "<", "/", "c", "o", "d", "e", ">", "<", "/", "p", "r", "e", ">">>)>>)>>,
      <<Html(<<Part(FALSE, <<"<", "i", "m", "g", " ", "a", "l", "t", "=", "\"", "c", "\"", ">", " ", "<", "i", "m", "g">>)>>)>>,
      <<Html(<<Part(FALSE, <<"<">>)>>)>>,
      <<Html(<<Part(FALSE, <<" ", "\n">>)>>)>>,
      <<Html(<<>>)>> }

\* the image of the description of the preview
Cat == Picture(<<>>, <<"A", " ", "c", "a", "t">>, <<"p", "i", "c", ".", "p", "n", "g">>)

\* an image tag without an alt attribute, as HTML in the note
NoAlt == Html(<<Part(FALSE, <<"x", "<", "i", "m", "g", " ", "s", "r", "c", "=", "\"", "p", ".", "p", "n", "g", "\"", ">", "y">>)>>)

ImageSamples ==
    { <<Cat>>,
      <<Picture(<<"x">>, <<"A", " ", "c", "a", "t">>, <<"p", "i", "c", ".", "p", "n", "g">>)>>,
      <<Picture(<<"x">>, <<>>, <<"a", "&", "b", ".", "p", "n", "g">>)>>,
      <<Para(<<"x">>), Picture(<<>>, <<"a", "<", "b">>, <<"p", ".", "p", "n", "g">>), Para(<<"y">>)>>,
      <<NoAlt>> }

\* strong in em and em in strong
Nested ==
    Html(<<Part(FALSE,
                <<"<", "p", ">", "<", "s", "t", "r", "o", "n", "g", ">", "a", " ", "<", "e", "m", ">", "b", "<", "/", "e", "m", ">", "<", "/", "s", "t", "r", "o", "n", "g", ">", " ", "<", "e", "m", ">", "c", " ", "<", "s", "t", "r", "o", "n", "g", ">", "d", "<", "/", "s", "t", "r", "o", "n", "g", ">", "<", "/", "e", "m", ">", "<", "/", "p", ">">>)>>)

\* literal bold and italic tags in upper case, as HTML in the note
UpperBold == Html(<<Part(FALSE, <<"<", "p", ">", "<", "B", ">", "c", "<", "/", "B", ">", " ", "<", "I", ">", "d", "<", "/", "I", ">", " ", "<", "b", ">", "e", "<", "/", "b", ">", "<", "/", "p", ">">>)>>)

EmphasisSamples ==
    { <<Nested>>,
      <<UpperBold>>,
      <<Html(<<Part(FALSE, <<"<", "p", ">", "<", "b", ">", "c", "<", "/", "b", ">", " ", "<", "i", ">", "d", "<", "/", "i", ">", "<", "/", "p", ">">>)>>)>>,
      <<Html(<<Part(FALSE, <<"<", "S", "T", "R", "O", "N", "G", ">", "a", "\n", "b", "<", "/", "S", "T", "R", "O", "N", "G", ">", " ", "<", "E", "m", ">", "x", "<", "/", "e", "M", ">">>)>>)>> }

\* HTML with its tags in lower case and the content of every element on
\* one line; "_" marks the places where a content may be broken
PlainForms ==
    { <<"<", "h", "1", ">", "t", "_", "u", "<", "/", "h", "1", ">", "\n", "<", "p", ">", "<", "s", "t", "r", "o", "n", "g", ">", "a", "_", "b", "<", "/", "s", "t", "r", "o", "n", "g", ">", " ", "<", "e", "m", ">", "c", "_", "d", "<", "/", "e", "m", ">", " ", "<", "b", ">", "e", "_", "f", "<", "/", "b", ">", " ", "<", "i", ">", "g", "_", "h", "<", "/", "i", ">", " ", "<", "c", "o", "d", "e", ">", "y", "_", "z", "<", "/", "c", "o", "d", "e", ">", "<", "b", "r", " ", "/", ">", "<", "/", "p", ">", "\n", "<", "h", "r", " ", "/", ">">>,
      <<"<", "h", "2", ">", "a", "_", "b", "<", "/", "h", "2", ">", "\n", "<", "h", "3", ">", "c", "_", "d", "<", "/", "h", "3", ">", "\n", "<", "h", "4", ">", "e", "_", "f", "<", "/", "h", "4", ">", "\n", "<", "h", "5", ">", "g", "_", "h", "<", "/", "h", "5", ">", "\n", "<", "h", "6", ">", "j", "_", "k", "<", "/", "h", "6", ">", "\n", "<", "p", ">", "x", "<", "/", "p", ">">>,
      <<"<", "p", "r", "e", ">", "<", "c", "o", "d", "e", ">", "q", "_", "r", "<", "/", "c", "o", "d", "e", ">", "<", "/", "p", "r", "e", ">", "\n", "<", "p", "r", "e", ">", "z", "_", "w", "<", "/", "p", "r", "e", ">", "\n", "<", "p", ">", "x", "<", "i", "m", "g", " ", "a", "l", "t", "=", "\"", "a", "\"", " ", "s", "r", "c", "=", "\"", "s", "\"", " ", "/", ">", "y", "_", "z", "<", "/", "p", ">">>,
      <<"<", "u", "l", ">", "\n", "<", "l", "i", " ", "d", "a", "t", "a", "-", "l", "i", "-", "l", "e", "v", "e", "l", "=", "\"", "0", "\"", ">", "A", "_", "B", "<", "/", "l", "i", ">", "\n", "<", "l", "i", " ", "d", "a", "t", "a", "-", "l", "i", "-", "l", "e", "v", "e", "l", "=", "\"", "0", "\"", ">", "C", "<", "o", "l", ">", "\n", "<", "l", "i", " ", "d", "a", "t", "a", "-", "l", "i", "-", "l", "e", "v", "e", "l", "=", "\"", "1", "\"", ">", "D", "_", "E", "<", "/", "l", "i", ">", "\n", "<", "/", "o", "l", ">", "\n", "<", "/", "l", "i", ">", "\n", "<", "/", "u", "l", ">">> }

ToUpper(c) ==
    IF \E k \in 1..26 : LowerCase[k] = c
    THEN UpperCase[CHOOSE k \in 1..26 : LowerCase[k] = c]
    ELSE c

\* position p of s lies in a tag and not in a value in double quotes
InTagName(s, p) ==
    \E k \in 1..p :
        /\ s[k] = "<"
        /\ \A j \in k..p : s[j] # ">"
        /\ Cardinality({j \in k..p : s[j] = "\""}) % 2 = 0

\* the HTML s with upper-case tags: the letters of its tags in upper case
\* but for the values in double quotes
UpperTags(s) ==
    [p \in 1..Len(s) |-> IF InTagName(s, p) THEN ToUpper(s[p]) ELSE s[p]]

\* s with a newline in every place marked "_"
WithNewlines(s) == [k \in 1..Len(s) |-> IF s[k] = "_" THEN "\n" ELSE s[k]]

RawNote(s) == <<Html(<<Part(FALSE, s)>>)>>

\* "- A / (nested) - B {: #x} / - C": attr_list gives item B an id; the
\* serializer writes it after the level
AttrItem ==
    RawNote(<<"<", "u", "l", ">", "\n", "<", "l", "i", " ", "d", "a", "t", "a", "-", "l", "i", "-", "l", "e", "v", "e", "l", "=", "\"", "0", "\"", ">", "A", "<", "u", "l", ">", "\n", "<", "l", "i", " ", "d", "a", "t", "a", "-", "l", "i", "-", "l", "e", "v", "e", "l", "=", "\"", "1", "\"", " ", "i", "d", "=", "\"", "x", "\"", ">", "B", "<", "/", "l", "i", ">", "\n", "<", "/", "u", "l", ">", "\n", "<", "/", "l", "i", ">", "\n", "<", "l", "i", " ", "d", "a", "t", "a", "-", "l", "i", "-", "l", "e", "v", "e", "l", "=", "\"", "0", "\"", ">", "C", "<", "/", "l", "i", ">", "\n", "<", "/", "u", "l", ">">>)

\* "a `x<y` b" and a fenced block "c<d": inline code beside block code
InlineCode ==
    RawNote(<<"<", "p", ">", "a", " ", "<", "c", "o", "d", "e", ">", "x", "&", "l", "t", ";", "y", "<", "/", "c", "o", "d", "e", ">", " ", "b", "<", "/", "p", ">", "\n", "<", "p", "r", "e", ">", "<", "c", "o", "d", "e", ">", "c", "&", "l", "t", ";", "d", "\n", "<", "/", "c", "o", "d", "e", ">", "<", "/", "p", "r", "e", ">">>)

CaseSamples ==
    {RawNote(s) : s \in PlainForms}
        \cup {RawNote(UpperTags(s)) : s \in PlainForms}
        \cup {RawNote(WithNewlines(s)) : s \in PlainForms}

OtherNotes ==
    ListSamples \cup HeadingSamples \cup FenceSamples \cup MixedSamples
        \cup BrokenSamples \cup ImageSamples \cup EmphasisSamples
        \cup CaseSamples \cup {AttrItem, InlineCode}

Notes == ListNotes \cup OtherNotes

(***************************************************************************)
(* The tree processor at work: the block parser builds the tree one        *)
(* element at a time, then run is applied (and applied again).             *)
(***************************************************************************)
TreeInit ==
    /\ root = <<>>
    /\ runs = 0
    /\ parsed = NoTree
    /\ once = NoTree
    /\ md_text = <<>> /\ html_text = <<>> /\ depth = 0 /\ pc = "tree"
    /\ treeprocessors = {} /\ ran = <<>>
    /\ title = <<>> /\ filename = <<>> /\ app = NoWindow

\* the parser appends one element to the tree
AddElement ==
    /\ runs = 0
    /\ Len(root) < MaxNodes
    /\ \E p \in RightmostPath(root) :
         \E tag \in ChildTags(TagOf(root, p)) :
           root' = Append(root, [tag |-> tag, parent |-> p, attrib |-> <<>>])
    /\ UNCHANGED <<runs, parsed, once, pangoVars, registryVars, appVars>>

\* Markdown calls the registered tree processor
Run ==
    /\ runs = 0
    /\ root' = run(root)
    /\ runs' = 1
    /\ parsed' = root
    /\ once' = root'
    /\ UNCHANGED <<pangoVars, registryVars, appVars>>

\* run applied to the tree it returned
RunAgain ==
    /\ runs = 1
    /\ root' = run(root)
    /\ runs' = 2
    /\ UNCHANGED <<parsed, once, pangoVars, registryVars, appVars>>

TreeNext == AddElement \/ Run \/ RunAgain

SpecTree == TreeInit /\ [][TreeNext]_vars

(***************************************************************************)
(* The preview pipeline: update_markdown_preview without WebKit, which     *)
(* converts the note to HTML and runs _html_to_pango statement by          *)
(* statement.                                                              *)
(***************************************************************************)
NoNote == <<>>

PangoInit ==
    /\ md_text \in Notes
    /\ html_text = <<>>
    /\ depth = depth_range[1]
    /\ pc = "markdown"
    /\ root = <<>> /\ runs = 0 /\ parsed = NoTree /\ once = NoTree
    /\ treeprocessors = {} /\ ran = <<>>
    /\ title = <<>> /\ filename = <<>> /\ app = NoWindow

\* a statement of _html_to_pango that assigns result to html_text, unless
\* computing it raised
Statement(at, next, result) ==
    /\ pc = at
    /\ IF Raised(result)
       THEN pc' = "raised" /\ html_text' = html_text
       ELSE pc' = next /\ html_text' = result
    /\ UNCHANGED <<md_text, depth, treeVars, registryVars, appVars>>

\* html_body_content = markdown.markdown(md_text, ...)
Markdown == Statement("markdown", "h1", markdown_markdown(md_text))

\* the statement of _html_to_pango at label `at`, applied to the string s;
\* d is the value of the loop variable depth
apply(at, d, s) ==
    CASE at = "h1" -> re_sub(heading_pattern(1), heading_replacement(1), s)
      [] at = "h2" -> re_sub(heading_pattern(2), heading_replacement(2), s)
      [] at = "h3" -> re_sub(heading_pattern(3), heading_replacement(3), s)
      [] at = "h4" -> re_sub(heading_pattern(4), heading_replacement(4), s)
      [] at = "h5" -> re_sub(heading_pattern(5), heading_replacement(5), s)
      [] at = "h6" -> re_sub(heading_pattern(6), heading_replacement(6), s)
      [] at = "strong" -> re_sub(strong_pattern, b_replacement, s)
      [] at = "em" -> re_sub(em_pattern, i_replacement, s)
      [] at = "b" -> re_sub(b_pattern, b_replacement, s)
      [] at = "i" -> re_sub(i_pattern, i_replacement, s)
      [] at = "pre_code" ->
            re_sub(pre_code_pattern, Call("pre_block_to_pango", 0), s)
      [] at = "pre" -> re_sub(pre_pattern, Call("pre_block_to_pango", 0), s)
      [] at = "code" -> re_sub(code_pattern, code_replacement, s)
      [] at = "p" -> re_sub(p_pattern, p_replacement, s)
      [] at = "br" -> re_sub(br_pattern, br_replacement, s)
      [] at = "img" ->
            re_sub(img_pattern, Call("img_to_pango_placeholder", 0), s)
      [] at = "li" -> re_sub(pattern(d), Call("replacement_func", d), s)
      [] at = "ul_ol" -> re_sub(ul_ol_pattern, removed, s)
      [] at = "li_strip" -> re_sub(li_pattern, removed, s)
      [] at = "hr" -> re_sub(hr_pattern, hr_replacement, s)
      [] at = "return" -> return_value(s)

H1 == Statement("h1", "h2",
              re_sub(heading_pattern(1), heading_replacement(1), html_text))

H2 == Statement("h2", "h3",
              re_sub(heading_pattern(2), heading_replacement(2), html_text))

H3 == Statement("h3", "h4",
              re_sub(heading_pattern(3), heading_replacement(3), html_text))

H4 == Statement("h4", "h5",
              re_sub(heading_pattern(4), heading_replacement(4), html_text))

H5 == Statement("h5", "h6",
              re_sub(heading_pattern(5), heading_replacement(5), html_text))

H6 == Statement("h6", "strong",
              re_sub(heading_pattern(6), heading_replacement(6), html_text))

Strong == Statement("strong", "em",
              re_sub(strong_pattern, b_replacement, html_text))

Em == Statement("em", "b", re_sub(em_pattern, i_replacement, html_text))

Bold == Statement("b", "i", re_sub(b_pattern, b_replacement, html_text))

Italic == Statement("i", "pre_code",
              re_sub(i_pattern, i_replacement, html_text))

PreCode == Statement("pre_code", "pre",
              re_sub(pre_code_pattern, Call("pre_block_to_pango", 0), html_text))

Pre == Statement("pre", "code",
              re_sub(pre_pattern, Call("pre_block_to_pango", 0), html_text))

Code == Statement("code", "p",
              re_sub(code_pattern, code_replacement, html_text))

Paragraph == Statement("p", "br", re_sub(p_pattern, p_replacement, html_text))

Break == Statement("br", "img", re_sub(br_pattern, br_replacement, html_text))

Image == Statement("img", "li",
              re_sub(img_pattern, Call("img_to_pango_placeholder", 0), html_text))

\* one turn of "for depth in range(max_styled_depth, -1, -1)" with the
\* result of its re.sub
Turn(result) ==
    /\ pc = "li"
    /\ IF Raised(result)
       THEN pc' = "raised" /\ html_text' = html_text /\ depth' = depth
       ELSE /\ html_text' = result
            /\ IF RangeIndex(depth) < Len(depth_range)
               THEN depth' = depth_range[RangeIndex(depth) + 1] /\ pc' = "li"
               ELSE depth' = depth /\ pc' = "ul_ol"
    /\ UNCHANGED <<md_text, treeVars, registryVars, appVars>>

ListItems ==
    Turn(re_sub(pattern(depth), Call("replacement_func", depth), html_text))

StripLists == Statement("ul_ol", "li_strip",
              re_sub(ul_ol_pattern, removed, html_text))

StripItems == Statement("li_strip", "hr",
              re_sub(li_pattern, removed, html_text))

Rule == Statement("hr", "return",
              re_sub(hr_pattern, hr_replacement, html_text))

Return == Statement("return", "done", return_value(html_text))

PangoNext ==
    \/ Markdown
    \/ H1 \/ H2 \/ H3 \/ H4 \/ H5 \/ H6
    \/ Strong \/ Em \/ Bold \/ Italic
    \/ PreCode \/ Pre \/ Code
    \/ Paragraph \/ Break \/ Image
    \/ ListItems
    \/ StripLists \/ StripItems
    \/ Rule
    \/ Return

SpecPango == PangoInit /\ [][PangoNext]_vars

(***************************************************************************)
(* markdown.markdown(md_text, extensions=['fenced_code', 'tables',          *)
(* 'attr_list', ListNestingExtension()]) step by step, for a note that is  *)
(* one list: the extensions register their tree processors, the block      *)
(* parser builds the tree, the registered tree processors run in the       *)
(* order of the registry, and the serializer writes the HTML.  The         *)
(* registry of Python-Markdown holds the processors 'inline' (priority 20) *)
(* and 'prettify' (priority 10) from the start, and runs the processor of  *)
(* the higher priority first.                                              *)
(***************************************************************************)
Processor(name, priority) == [name |-> name, priority |-> priority]

\* the tree processors of a Markdown object before its extensions load
BuiltIn == {Processor("inline", 20), Processor("prettify", 10)}

\* Registry.register(item, name, priority)
register(registry, name, priority) ==
    {r \in registry : r.name # name} \cup {Processor(name, priority)}

\* a registry that runs the processor of the lower priority first
RunsBeforeAscending(a, b) == a.priority < b.priority

\* processor a runs before processor b
RunsBefore(a, b) == a.priority > b.priority

\* the processor of the registry that runs next
NextProcessor ==
    CHOOSE a \in treeprocessors :
        /\ \A k \in 1..Len(ran) : ran[k] # a.name
        /\ \A b \in treeprocessors :
              (b # a /\ \A k \in 1..Len(ran) : ran[k] # b.name) => RunsBefore(a, b)

AllRan == \A a \in treeprocessors : \E k \in 1..Len(ran) : ran[k] = a.name

MarkdownInit ==
    /\ md_text \in ListNotes \cup ListSamples
    /\ html_text = <<>>
    /\ depth = depth_range[1]
    /\ pc = "extensions"
    /\ root = <<>> /\ runs = 0 /\ parsed = NoTree /\ once = NoTree
    /\ treeprocessors = BuiltIn /\ ran = <<>>
    /\ title = <<>> /\ filename = <<>> /\ app = NoWindow

\* the extensions named by strings load: of 'fenced_code', 'tables' and
\* 'attr_list' only attr_list registers a tree processor
LoadExtensions ==
    /\ pc = "extensions"
    /\ treeprocessors' = register(treeprocessors, "attr_list", 8)
    /\ pc' = "extendMarkdown"
    /\ UNCHANGED <<treeVars, md_text, html_text, depth, ran, appVars>>

\* ListNestingExtension.extendMarkdown(md)
extendMarkdown ==
    /\ pc = "extendMarkdown"
    /\ treeprocessors' = register(treeprocessors, "listnesting", 15)
    /\ pc' = "parse"
    /\ UNCHANGED <<treeVars, md_text, html_text, depth, ran, appVars>>

\* the block parser builds the tree of the note
ParseBlocks ==
    /\ pc = "parse"
    /\ root' = md_text[1].tree
    /\ pc' = "treeprocessors"
    /\ UNCHANGED <<runs, parsed, once, md_text, html_text, depth, registryVars, appVars>>

\* the tree processor whose turn it is runs; the processors of the library
\* leave the lists and their items as they are
RunTreeprocessor ==
    /\ pc = "treeprocessors"
    /\ ~AllRan
    /\ ran' = Append(ran, NextProcessor.name)
    /\ IF NextProcessor.name = "listnesting"
       THEN /\ root' = run(root)
            /\ runs' = runs + 1
            /\ parsed' = root
            /\ once' = root'
       ELSE UNCHANGED treeVars
    /\ UNCHANGED <<pangoVars, treeprocessors, appVars>>

\* the serializer writes the tree
SerializeTree ==
    /\ pc = "treeprocessors"
    /\ AllRan
    /\ html_text' = strip(Concat([k \in 1..Len(Children(root, 0)) |->
                                    Serialize(root, Children(root, 0)[k])
                                        \o <<"\n">>]))
    /\ pc' = "converted"
    /\ UNCHANGED <<treeVars, md_text, depth, registryVars, appVars>>

MarkdownNext ==
    \/ LoadExtensions
    \/ extendMarkdown
    \/ ParseBlocks
    \/ RunTreeprocessor
    \/ SerializeTree

SpecMarkdown == MarkdownInit /\ [][MarkdownNext]_vars

(***************************************************************************)
(* _html_to_pango as a function: its statements one after the other.       *)
(***************************************************************************)
BeforeLists ==
    <<"h1", "h2", "h3", "h4", "h5", "h6", "strong", "em", "b", "i",
      "pre_code", "pre", "code", "p", "br", "img">>

AfterLists == <<"ul_ol", "li_strip", "hr">>

RECURSIVE ApplyAll(_, _)
\* the statements named by labels, one after the other; an exception ends
\* the run
ApplyAll(labels, s) ==
    IF labels = <<>> \/ Raised(s) THEN s
    ELSE ApplyAll(Tail(labels), apply(Head(labels), 0, s))

RECURSIVE ApplyDepths(_, _)
\* the loop over the depths, from the k-th of the range on
ApplyDepths(k, s) ==
    IF k > Len(depth_range) \/ Raised(s) THEN s
    ELSE ApplyDepths(k + 1, apply("li", depth_range[k], s))

\* html_text just before "return html_text.strip()"
html_before_return(s) ==
    ApplyAll(AfterLists, ApplyDepths(1, ApplyAll(BeforeLists, s)))

\* _html_to_pango(html_text)
html_to_pango(s) ==
    LET r == html_before_return(s)
    IN  IF Raised(r) THEN r ELSE apply("return", 0, r)

(***************************************************************************)
(* sanitize_filename and get_title_from_filename of MarkdownNotesWindow.   *)
(***************************************************************************)
\* the longest title typed into the dialog
MaxTitle == 4

\* the characters a title is typed from
TitleChars == {"a", "M", "k", ".", " ", "/", "-"}

\* the titles of up to MaxTitle characters
Titles == UNION {[1..n -> TitleChars] : n \in 0..MaxTitle}

Digits == {"0", "1", "2", "3", "4", "5", "6", "7", "8", "9"}

\* the characters \w matches
WordChars == UpperSet \cup {LowerCase[k] : k \in 1..26} \cup Digits \cup {"_"}

\* str.lower()
lower(s) == [k \in 1..Len(s) |-> Fold(s[k])]

\* str.endswith(suffix)
endswith(s, suffix) ==
    /\ Len(s) >= Len(suffix)
    /\ SubSeq(s, Len(s) - Len(suffix) + 1, Len(s)) = suffix

\* a sanitize_filename that leaves a trailing ".mk" in the title
keep_extension(t) == t

\* if title.lower().endswith(".mk"): title = title[:-3]
strip_extension(t) ==
    IF endswith(lower(t), <<".", "m", "k">>) THEN SubSeq(t, 1, Len(t) - 3) ELSE t

RECURSIVE whitespace_to_underscore(_)
\* re.sub(r'\s+', '_', s)
whitespace_to_underscore(s) ==
    IF s = <<>> THEN <<>>
    ELSE IF Head(s) \notin Whitespace
         THEN <<Head(s)>> \o whitespace_to_underscore(Tail(s))
         ELSE IF Len(s) > 1 /\ s[2] \in Whitespace
              THEN whitespace_to_underscore(Tail(s))
              ELSE <<"_">> \o whitespace_to_underscore(Tail(s))

\* re.sub(r'[^\w.-]', '', s)
remove_other(s) == SelectSeq(s, LAMBDA c : c \in WordChars \cup {".", "-"})

\* the local s of sanitize_filename before the return
sanitized(t) ==
    remove_other(whitespace_to_underscore(strip(strip_extension(t))))

\* what the return statement makes of s
with_extension(s) == IF s # <<>> THEN s \o <<".", "m", "k">> ELSE <<"u", "n", "t", "i", "t", "l", "e", "d", ".", "m", "k">>

\* sanitize_filename(title)
sanitize_filename(t) == with_extension(sanitized(t))

\* get_title_from_filename(filename)
get_title_from_filename(f) ==
    IF endswith(lower(f), <<".", "m", "k">>)
    THEN [k \in 1..(Len(f) - 3) |-> IF f[k] = "_" THEN " " ELSE f[k]]
    ELSE f

(***************************************************************************)
(* The specification of sanitize_filename: a title is typed, sanitized,    *)
(* and the result is sanitized again.                                      *)
(***************************************************************************)
SanitizeInit ==
    /\ title \in Titles
    /\ filename = <<>>
    /\ pc = "sanitize"
    /\ app = NoWindow
    /\ md_text = <<>> /\ html_text = <<>> /\ depth = 0
    /\ root = <<>> /\ runs = 0 /\ parsed = NoTree /\ once = NoTree
    /\ treeprocessors = {} /\ ran = <<>>

\* filename = self.sanitize_filename(title)
Sanitize ==
    /\ pc = "sanitize"
    /\ filename' = sanitize_filename(title)
    /\ pc' = "sanitized"
    /\ UNCHANGED <<title, app, md_text, html_text, depth, treeVars, registryVars>>

\* the file name is sanitized as a title
SanitizeAgain ==
    /\ pc = "sanitized"
    /\ filename' = sanitize_filename(filename)
    /\ pc' = "again"
    /\ UNCHANGED <<title, app, md_text, html_text, depth, treeVars, registryVars>>

SanitizeNext == Sanitize \/ SanitizeAgain

SpecSanitize == SanitizeInit /\ [][SanitizeNext]_vars

(***************************************************************************)
(* The notes window.  app holds the fields of MarkdownNotesWindow, the     *)
(* widgets the handlers read and set, the notes directory, and what the    *)
(* user and the file system answer while a handler runs.  A handler is an  *)
(* operator from app to app; the signals a call emits before it returns    *)
(* (changed of the buffer, changed of the selection, toggled of the        *)
(* preview button) run their handlers inside it, as GTK runs them.         *)
(***************************************************************************)
\* self.current_note_filename = None, and the empty relative path
None == <<>>

\* the folders of the notes directory: the directory itself and one folder
NotesFolders == {"", "f"}

\* the titles typed into the dialogs
DialogTitles == {<<>>, <<"a">>, <<"b">>}

\* the file names notes are written under
FileNames == {sanitize_filename(t) : t \in DialogTitles \ {<<>>}}

\* os.path.join(folder, filename): the relative path of a note
NotePaths == {<<d, n>> : d \in NotesFolders, n \in FileNames}

\* os.path.dirname and os.path.basename of the relative path of a note
dirname(p) == p[1]

basename(p) == p[2]

\* no file at the path
NoFile == <<"ENOENT">>

\* get_empty_markdown_document(title)
get_empty_markdown_document(t) == <<"#", " ">> \o strip(t) \o <<"\n">>

\* the titles typed into the dialog of on_new_note_clicked
NewTitles == {<<>>, <<"a">>}

\* what the user types into the editor
TypedTexts == {<<>>, <<"x">>}

\* the notes directory when the window opens: a note written as "a" in
\* each folder
StoredFiles ==
    [p \in NotePaths |->
        IF basename(p) = sanitize_filename(<<"a">>)
        THEN get_empty_markdown_document(<<"a">>) ELSE NoFile]

\* the rows of the tree: a note or a folder, and no row
NoteRow(p) == [type |-> "note", path |-> p]

FolderRow(d) == [type |-> "folder", path |-> <<d>>]

NoRow == [type |-> "none", path |-> None]

\* _load_directory_into_tree: the rows of the tree for the files on disk
Rows(files) ==
    {FolderRow(d) : d \in NotesFolders \ {""}}
        \cup {NoteRow(p) : p \in {q \in NotePaths : files[q] # NoFile}}

\* the buffer text of the folder branch of _on_tree_selection_changed
FolderText(row) ==
    <<"F", "o", "l", "d", "e", "r", " ", "s", "e", "l", "e", "c", "t", "e", "d", ":", " ">> \o <<row.path[1]>>
        \o <<"\n", "\n", "(", "C", "r", "e", "a", "t", "e", " ", "n", "o", "t", "e", "s", " ", "o", "r", " ", "s", "u", "b", "f", "o", "l", "d", "e", "r", "s", " ", "h", "e", "r", "e", " ", "i", "n", " ", "t", "h", "e", " ", "f", "u", "t", "u", "r", "e", ")">>

\* the texts of title_label
AppTitle == [kind |-> "app", of |-> None, star |-> FALSE]

NoteTitle(p, star) == [kind |-> "note", of |-> p, star |-> star]

FolderTitle(row) == [kind |-> "folder", of |-> row.path, star |-> FALSE]

\* update_markdown_preview rendered nothing
NothingRendered ==
    [by |-> "nothing", base_uri |-> None, note |-> None, mode |-> FALSE,
     html_to_pango |-> FALSE]

\* show_message_dialog was not called
NoMessage == [title |-> "", about |-> None]

\* show_message_dialog(title, message, type): the title and the name the
\* message is about
show_message_dialog(w, t, about) ==
    [w EXCEPT !.message = [title |-> t, about |-> about]]

\* the next answer of the user to the unsaved changes dialog: closing the
\* dialog is Cancel
NextAnswer(w) == IF w.answers = <<>> THEN "CANCEL" ELSE Head(w.answers)

\* whether the next file operation succeeds
NextIO(w) == IF w.io = <<>> THEN TRUE ELSE Head(w.io)

Answered(w) == [w EXCEPT !.answers = IF @ = <<>> THEN @ ELSE Tail(@)]

DidIO(w) == [w EXCEPT !.io = IF @ = <<>> THEN @ ELSE Tail(@)]

\* a save action that is enabled whenever the flag changes
enabled_always(w, new_state) == TRUE

\* self.unsaved_changes and bool(self.current_note_filename)
enabled(w, new_state) == new_state /\ w.current_note_filename # None

\* set_unsaved_changes(new_state)
set_unsaved_changes(w, new_state) ==
    IF w.unsaved_changes = new_state THEN w
    ELSE [w EXCEPT
            !.unsaved_changes = new_state,
            !.save_enabled = enabled(w, new_state),
            !.title_label =
                IF w.current_note_filename # None
                THEN NoteTitle(w.current_note_filename, new_state)
                ELSE [AppTitle EXCEPT !.star = new_state]]

\* a base URI that is the notes directory for every note
base_uri_notes_dir(w) == <<"">>

\* the base_uri of update_markdown_preview: the folder of the note
base_uri(w) == <<dirname(w.current_note_filename)>>

\* update_markdown_preview()
update_markdown_preview(w) ==
    IF w.current_note_filename = None \/ ~w.preview_mode THEN w
    ELSE [w EXCEPT !.rendered =
            [by       |-> IF w.WEBKIT_AVAILABLE THEN "preview_webview"
                          ELSE "preview_label",
             base_uri |-> IF w.WEBKIT_AVAILABLE THEN base_uri(w) ELSE None,
             note     |-> w.current_note_filename,
             mode     |-> w.preview_mode,
             html_to_pango |-> ~w.WEBKIT_AVAILABLE]]

\* the second statement of on_buffer_changed
queue_preview(w) ==
    IF w.preview_mode /\ w.current_note_filename # None
    THEN [w EXCEPT !.idle = TRUE] ELSE w

\* on_buffer_changed(buffer)
on_buffer_changed(w) ==
    queue_preview(IF w.current_note_filename # None /\ ~w.preview_mode
                  THEN set_unsaved_changes(w, TRUE) ELSE w)

\* editor_buffer.set_text(text): changed is emitted unless nothing is
\* deleted and nothing inserted; edits are dropped when the text replaced
\* held unsaved changes the user did not agree to lose
set_text(w, text) ==
    IF w.editor_buffer = <<>> /\ text = <<>> THEN w
    ELSE on_buffer_changed(
             [w EXCEPT !.editor_buffer = text,
                       !.dropped = @ \/ (w.unsaved_changes /\ ~w.consent)])

\* on_preview_toggled(button)
on_preview_toggled(w, active) ==
    IF active THEN update_markdown_preview([w EXCEPT !.preview_mode = TRUE])
    ELSE [w EXCEPT !.preview_mode = FALSE]

\* if self.preview_mode: self.preview_toggle_button.set_active(False)
leave_preview(w) == IF w.preview_mode THEN on_preview_toggled(w, FALSE) ELSE w

\* save_current_note()
save_current_note(w) ==
    IF w.current_note_filename = None THEN [w EXCEPT !.returned = FALSE]
    ELSE IF NextIO(w)
         THEN [set_unsaved_changes(
                   [DidIO(w) EXCEPT !.files[w.current_note_filename] = w.editor_buffer],
                   FALSE)
               EXCEPT !.returned = TRUE]
         ELSE [show_message_dialog(DidIO(w), "Error: Could not save note",
                                   w.current_note_filename)
               EXCEPT !.returned = FALSE]

\* a handle_unsaved_changes that returns YES whatever save_current_note
\* returned
always_yes(s) == [s EXCEPT !.response = "YES"]

\* handle_unsaved_changes after save_current_note returned
saved_or_cancel(s) == [s EXCEPT !.response = IF s.returned THEN "YES" ELSE "CANCEL"]

\* handle_unsaved_changes()
handle_unsaved_changes(w) ==
    IF ~w.unsaved_changes THEN [w EXCEPT !.response = "NO"]
    ELSE IF NextAnswer(w) = "YES"
         THEN saved_or_cancel(save_current_note(Answered(w)))
         ELSE IF NextAnswer(w) = "NO"
              THEN [Answered(w) EXCEPT !.response = "NO", !.consent = TRUE]
              ELSE [Answered(w) EXCEPT !.response = "CANCEL"]

\* load_note_content(filename)
load_note_content(w) ==
    IF NextIO(w) /\ w.files[w.current_note_filename] # NoFile
    THEN update_markdown_preview(
             set_text([DidIO(w) EXCEPT !.loaded = w.current_note_filename],
                      w.files[w.current_note_filename]))
    ELSE set_text(show_message_dialog(DidIO(w), "Error: Could not load note",
                                      w.current_note_filename),
                  <<>>)

\* the empty branch of _on_tree_selection_changed
nothing_selected(w) ==
    set_unsaved_changes(
        leave_preview(
            [set_text([w EXCEPT !.current_note_filename = None], <<>>)
             EXCEPT !.editor_sensitive = FALSE, !.preview_sensitive = FALSE]),
        FALSE)

\* the statements of the note branch after load_note_content
note_loaded(l) ==
    update_markdown_preview(
        set_unsaved_changes(
            [l EXCEPT !.editor_sensitive = ~l.preview_mode,
                      !.preview_sensitive = TRUE],
            FALSE))

\* the note branch of _on_tree_selection_changed
note_selected(w) ==
    note_loaded(load_note_content(
        [w EXCEPT !.current_note_filename = w.selected.path]))

\* the folder branch of _on_tree_selection_changed
folder_selected(w) ==
    [set_unsaved_changes(
         leave_preview(
             [set_text([w EXCEPT !.current_note_filename = None],
                       FolderText(w.selected))
              EXCEPT !.editor_sensitive = FALSE, !.preview_sensitive = FALSE]),
         FALSE)
     EXCEPT !.title_label = FolderTitle(w.selected)]

RECURSIVE on_tree_selection_changed(_)
RECURSIVE select_path_in_tree(_, _)
\* _on_tree_selection_changed after handle_unsaved_changes returned
selection_answered(a) ==
    IF a.response = "CANCEL"
    THEN IF a.current_note_filename # None
         THEN select_path_in_tree(a, a.current_note_filename)
         ELSE a
    ELSE IF a.selected.type = "note" THEN note_selected(a)
         ELSE folder_selected(a)

\* _on_tree_selection_changed(selection)
on_tree_selection_changed(w) ==
    IF w.selected = NoRow THEN nothing_selected(w)
    ELSE selection_answered(handle_unsaved_changes(w))

\* _select_path_in_tree(path_to_select): select_iter emits changed when
\* the row was not the selected one
select_path_in_tree(w, p) ==
    IF p = None \/ NoteRow(p) \notin Rows(w.files) \/ w.selected = NoteRow(p)
    THEN w
    ELSE on_tree_selection_changed([w EXCEPT !.selected = NoteRow(p)])

\* tree_model.clear(): the selected row goes and changed is emitted
clear(w) ==
    IF w.selected = NoRow THEN w
    ELSE on_tree_selection_changed([w EXCEPT !.selected = NoRow])

\* _populate_tree_model(path_to_select)
populate_tree_model(w, path_to_select) ==
    select_path_in_tree(clear(w), path_to_select)
\* the folder on_new_note_clicked writes into: that of the selected row
target_dir(w) ==
    IF w.selected.type = "folder" THEN w.selected.path[1]
    ELSE IF w.selected.type = "note" THEN dirname(w.selected.path)
         ELSE ""

\* on_new_note_clicked from "if os.path.exists(filepath)" on
write_new_note(w, t, filepath, final_filepath) ==
    IF w.files[filepath] # NoFile
    THEN show_message_dialog(w, "Note Exists", basename(filepath))
    ELSE IF NextIO(w)
         THEN populate_tree_model(
                  [DidIO(w) EXCEPT
                       !.files[final_filepath] = get_empty_markdown_document(t)],
                  final_filepath)
         ELSE show_message_dialog(DidIO(w), "Error: Could not create note",
                                  basename(filepath))

\* on_new_note_clicked after handle_unsaved_changes returned
new_note_answered(a, response, t) ==
    IF a.response = "CANCEL" \/ response # "OK" THEN a
    ELSE IF t = <<>> THEN show_message_dialog(a, "No Title", None)
    ELSE write_new_note(a, t, <<"", sanitize_filename(t)>>,
                        <<target_dir(a), sanitize_filename(t)>>)

\* on_new_note_clicked(widget_or_action, param)
on_new_note_clicked(w, response, t) ==
    new_note_answered(handle_unsaved_changes(w), response, t)

\* on_delete_note_clicked after os.remove
note_removed(w) ==
    populate_tree_model(
        set_unsaved_changes(
            leave_preview(
                [set_text([w EXCEPT !.files[w.current_note_filename] = NoFile,
                                    !.current_note_filename = None,
                                    !.consent = TRUE],
                          <<>>)
                 EXCEPT !.editor_sensitive = FALSE, !.preview_sensitive = FALSE]),
            FALSE),
        None)

\* on_delete_note_clicked(widget)
on_delete_note_clicked(w, response) ==
    IF w.current_note_filename = None
    THEN show_message_dialog(w, "No Note Selected", None)
    ELSE IF response # "YES" THEN w
         ELSE IF NextIO(w) THEN note_removed(DidIO(w))
              ELSE show_message_dialog(DidIO(w), "Error: Could not delete note",
                                       w.current_note_filename)

\* _on_rename_item_requested after os.rename succeeded
renamed(w, old, new, is_current) ==
    IF is_current
    THEN populate_tree_model(
             set_unsaved_changes([w EXCEPT !.current_note_filename = new], FALSE),
             new)
    ELSE populate_tree_model(
             w, IF w.current_note_filename # old THEN w.current_note_filename
                ELSE None)

\* _on_rename_item_requested from os.rename on
rename_file(w, old, new, is_current) ==
    IF NextIO(w)
    THEN renamed([DidIO(w) EXCEPT !.files[new] = w.files[old],
                                  !.files[old] = NoFile],
                 old, new, is_current)
    ELSE show_message_dialog(DidIO(w), "Error: Could not rename note", old)

\* _on_rename_item_requested after save_current_note returned
rename_saved(s, old, new) ==
    IF ~s.returned THEN show_message_dialog(s, "Save Failed", old)
    ELSE rename_file(s, old, new, TRUE)

\* an existence test that never finds a file
exists_never(w, p) == FALSE

\* os.path.exists(new_absolute_path_candidate)
exists(w, p) == w.files[p] # NoFile

\* _on_rename_item_requested from the existence test on
rename_to(w, old, new) ==
    IF exists(w, new)
    THEN show_message_dialog(w, "Error: already exists", basename(new))
    ELSE IF old = w.current_note_filename /\ w.unsaved_changes
         THEN rename_saved(save_current_note(w), old, new)
         ELSE rename_file(w, old, new, old = w.current_note_filename)

\* _on_rename_item_requested(menu_item, tree_iter)
on_rename_item_requested(w, old, response, t) ==
    IF response # "OK" THEN w
    ELSE IF strip(t) = <<>>
         THEN show_message_dialog(w, "Error: New title cannot be empty", None)
         ELSE IF sanitize_filename(strip(t)) = basename(old) THEN w
              ELSE rename_to(w, old, <<dirname(old), sanitize_filename(strip(t))>>)

\* the window is destroyed
destroyed(w) ==
    [w EXCEPT !.is_open = FALSE,
              !.dropped = @ \/ (w.unsaved_changes /\ ~w.consent)]

\* on_window_delete_event after handle_unsaved_changes returned
delete_event_answered(a) == IF a.response = "CANCEL" THEN a ELSE destroyed(a)

\* on_window_delete_event(window, event)
on_window_delete_event(w) ==
    IF w.unsaved_changes THEN delete_event_answered(handle_unsaved_changes(w))
    ELSE destroyed(w)

\* _on_tree_view_button_press: set_cursor selects the row, then the menu
\* of a note offers Rename Note
on_tree_view_button_press(w, row) ==
    [(IF w.selected = row THEN w
      ELSE on_tree_selection_changed([w EXCEPT !.selected = row]))
     EXCEPT !.menu = IF row.type = "note" THEN row.path ELSE None]

(***************************************************************************)
(* The specification of the window: one action for each event of the user  *)
(* interface and for the idle callback.                                    *)
(***************************************************************************)
\* the events of one session of the user
MaxEvents == 6

Answers == {"YES", "NO", "CANCEL"}

\* the answers to the unsaved changes dialogs of one event
AnswerSeqs == [1..2 -> Answers]

\* the unsaved changes dialog opens only when there are unsaved changes
AnswersFor(w) == IF w.unsaved_changes THEN AnswerSeqs ELSE {<<>>}

\* the outcomes of the file operations of one event: at most one fails
IOSeqs == {io \in [1..3 -> BOOLEAN] : \A i, j \in 1..3 : io[i] \/ io[j] \/ i = j}

\* the event starts: what the user and the file system will answer
Begin(w, event, answers, io) ==
    [w EXCEPT !.event = event,
              !.answers = answers, !.io = io, !.consent = FALSE,
              !.events = @ + 1,
              !.dropped = FALSE, !.response = "none", !.returned = FALSE,
              !.rendered = NothingRendered, !.message = NoMessage,
              !.loaded = None]

\* the handler returned
Finish(w) ==
    [w EXCEPT !.answers = <<>>, !.io = <<>>, !.consent = FALSE,
              !.response = "none", !.returned = FALSE]

\* the window after MarkdownNotesWindow.__init__
Window(files, webkit) ==
    [files |-> files,
     WEBKIT_AVAILABLE |-> webkit,
     current_note_filename |-> None,
     unsaved_changes |-> FALSE,
     preview_mode |-> FALSE,
     editor_buffer |-> <<>>,
     editor_sensitive |-> FALSE,
     preview_sensitive |-> FALSE,
     save_enabled |-> FALSE,
     title_label |-> AppTitle,
     selected |-> NoRow,
     menu |-> None,
     idle |-> FALSE,
     rendered |-> NothingRendered,
     message |-> NoMessage,
     loaded |-> None,
     is_open |-> TRUE,
     events |-> 0,
     event |-> "init",
     answers |-> <<>>, io |-> <<>>, consent |-> FALSE, dropped |-> FALSE,
     response |-> "none", returned |-> FALSE]

AppInit ==
    /\ app \in {Window(StoredFiles, webkit) : webkit \in BOOLEAN}
    /\ title = <<>> /\ filename = <<>>
    /\ md_text = <<>> /\ html_text = <<>> /\ depth = 0 /\ pc = "window"
    /\ root = <<>> /\ runs = 0 /\ parsed = NoTree /\ once = NoTree
    /\ treeprocessors = {} /\ ran = <<>>

\* nothing but app changes
OnlyApp == UNCHANGED <<title, filename, pangoVars, treeVars, registryVars>>

\* the window takes events
Ready == app.is_open /\ app.menu = None /\ app.events < MaxEvents

\* the user clicks a row that is not the selected one
ClickRow ==
    /\ Ready
    /\ \E row \in Rows(app.files) \ {app.selected} :
       \E answers \in AnswersFor(app), io \in IOSeqs :
           app' = Finish(on_tree_selection_changed(
                      [Begin(app, "click", answers, io) EXCEPT !.selected = row]))
    /\ OnlyApp

\* the user clicks the selected row with the control key held
Unselect ==
    /\ Ready
    /\ app.selected # NoRow
    /\ app' = Finish(on_tree_selection_changed(
                  [Begin(app, "unselect", <<>>, <<>>) EXCEPT !.selected = NoRow]))
    /\ OnlyApp

\* the user types in the editor
Type ==
    /\ Ready
    /\ app.editor_sensitive /\ ~app.preview_mode
    /\ \E text \in TypedTexts \ {app.editor_buffer} :
           app' = Finish(on_buffer_changed(
                      [Begin(app, "type", <<>>, <<>>) EXCEPT !.editor_buffer = text]))
    /\ OnlyApp

\* _on_save_action_activate
Save ==
    /\ Ready
    /\ app.save_enabled
    /\ \E ok \in BOOLEAN :
           app' = Finish(save_current_note(Begin(app, "save", <<>>, <<ok>>)))
    /\ OnlyApp

\* the New Note button or action
NewNote ==
    /\ Ready
    /\ \E response \in {"OK", "CANCEL"}, t \in NewTitles :
       \E answers \in AnswersFor(app), io \in IOSeqs :
           app' = Finish(on_new_note_clicked(Begin(app, "new", answers, io), response, t))
    /\ OnlyApp

\* the Delete button
DeleteNote ==
    /\ Ready
    /\ \E response \in {"YES", "NO"}, ok \in BOOLEAN :
           app' = Finish(on_delete_note_clicked(Begin(app, "delete", <<>>, <<ok>>), response))
    /\ OnlyApp

\* the preview button
TogglePreview ==
    /\ Ready
    /\ app.preview_sensitive
    /\ app' = Finish(on_preview_toggled(Begin(app, "toggle", <<>>, <<>>), ~app.preview_mode))
    /\ OnlyApp

\* the right mouse button on a row
ButtonPress ==
    /\ Ready
    /\ \E row \in Rows(app.files) :
       \E answers \in AnswersFor(app), io \in IOSeqs :
           app' = Finish(on_tree_view_button_press(Begin(app, "button press", answers, io), row))
    /\ OnlyApp

\* Rename Note of the context menu
Rename ==
    /\ app.is_open /\ app.menu # None /\ app.events < MaxEvents
    /\ \E response \in {"OK", "CANCEL"}, t \in DialogTitles :
       \E io \in IOSeqs :
           app' = [Finish(on_rename_item_requested(
                       Begin(app, "rename", <<>>, io), app.menu, response, t))
                   EXCEPT !.menu = None]
    /\ OnlyApp

\* the context menu is closed without a choice
CloseMenu ==
    /\ app.is_open /\ app.menu # None /\ app.events < MaxEvents
    /\ app' = [Finish(Begin(app, "close menu", <<>>, <<>>)) EXCEPT !.menu = None]
    /\ OnlyApp

\* the idle callback queued by on_buffer_changed
Idle ==
    /\ app.is_open /\ app.idle /\ app.events < MaxEvents
    /\ app' = Finish(update_markdown_preview(
                  [Begin(app, "idle", <<>>, <<>>) EXCEPT !.idle = FALSE]))
    /\ OnlyApp

\* the window's close button
CloseWindow ==
    /\ Ready
    /\ \E answers \in AnswersFor(app), ok \in BOOLEAN :
           app' = Finish(on_window_delete_event(Begin(app, "close", answers, <<ok>>)))
    /\ OnlyApp

AppNext ==
    \/ ClickRow \/ Unselect \/ Type \/ Save \/ NewNote \/ DeleteNote
    \/ TogglePreview \/ ButtonPress \/ Rename \/ CloseMenu \/ Idle
    \/ CloseWindow

SpecApp == AppInit /\ [][AppNext]_vars

(***************************************************************************)
(* Vocabulary of the properties of the tree processor.                     *)
(***************************************************************************)
Elements == 1..Len(root)

IsList(t, i) == i # 0 /\ t[i].tag \in {"ul", "ol"}

IsItem(t, i) == i # 0 /\ t[i].tag = "li"

\* an li that is a direct child of a ul or ol
ListItem(t, i) == IsItem(t, i) /\ IsList(t, t[i].parent)

\* the element that holds the list of list item i (0: the root)
ListHolder(t, i) == t[t[i].parent].parent

Tagged(t, i) == HasAttr(t, i, "data-li-level")

Level(t, i) == GetAttr(t, i, "data-li-level")

\* the number a level string stands for
LevelNumber(s) == CHOOSE n \in 0..(MaxNodes + 2) : ToString(n) = s

\* list item i is reached from the root by direct-child steps
\* root -> ul/ol -> li -> ul/ol -> li ...
RECURSIVE OnListChain(_, _)
OnListChain(t, i) ==
    /\ ListItem(t, i)
    /\ \/ ListHolder(t, i) = 0
       \/ OnListChain(t, ListHolder(t, i))

\* the attributes of an element other than the level
OtherAttrib(t, i) ==
    SelectSeq(t[i].attrib, LAMBDA kv : kv[1] # "data-li-level")

(***************************************************************************)
(* C1: after run, an item of a list directly under the root has level "0", *)
(* an item of a list directly inside an item of level k has level k+1, and *)
(* the items of all the lists one item holds have the same level.          *)
(***************************************************************************)
C1_LevelsFollowNesting ==
    runs >= 1 =>
        \A i \in Elements :
            ListItem(root, i) =>
                /\ ListHolder(root, i) = 0 => Level(root, i) = "0"
                /\ \A q \in Elements :
                       (q = ListHolder(root, i) /\ IsItem(root, q) /\ Tagged(root, q))
                       => /\ Tagged(root, i)
                          /\ Level(root, i) = ToString(LevelNumber(Level(root, q)) + 1)
                /\ \A j \in Elements :
                       (ListItem(root, j) /\ ListHolder(root, j) = ListHolder(root, i)
                        /\ Tagged(root, i))
                       => Level(root, j) = Level(root, i)

\* one item of level 0 holds two lists, each with an item of level 1
C1_Witness ==
    /\ runs = 1
    /\ \E i, j \in Elements :
          /\ i # j
          /\ ListItem(root, i) /\ ListItem(root, j)
          /\ root[i].parent # root[j].parent
          /\ ListHolder(root, i) = ListHolder(root, j)
          /\ ListHolder(root, i) # 0
          /\ Level(root, ListHolder(root, i)) = "0"
          /\ Level(root, i) = "1" /\ Level(root, j) = "1"

(***************************************************************************)
(* C8: run is idempotent: a second run leaves the level of every element   *)
(* as the first run set it.                                                *)
(***************************************************************************)
C8_RunIdempotent ==
    runs = 2 =>
        /\ Len(root) = Len(once)
        /\ \A i \in Elements :
              /\ Tagged(root, i) = Tagged(once, i)
              /\ Level(root, i) = Level(once, i)

C8_Witness ==
    /\ runs = 2
    /\ \E i, j \in Elements : Level(root, i) = "0" /\ Level(root, j) = "1"

(***************************************************************************)
(* C9: run changes nothing but the level attribute of li elements: the     *)
(* tree it returns has the same elements in the same order with the same   *)
(* tags and parents, every other attribute is kept, and no element that is *)
(* not an li gets an attribute.                                            *)
(***************************************************************************)
C9_OnlyItemLevelsChange ==
    runs >= 1 =>
        /\ Len(root) = Len(parsed)
        /\ \A i \in Elements :
              /\ root[i].tag = parsed[i].tag
              /\ root[i].parent = parsed[i].parent
              /\ OtherAttrib(root, i) = OtherAttrib(parsed, i)
              /\ ~IsItem(root, i) => root[i].attrib = parsed[i].attrib

\* a list under the root holds a tagged item and a child that is not an item
C9_Witness ==
    /\ runs = 1
    /\ \E i, j \in Elements :
          /\ root[i].parent = root[j].parent
          /\ IsList(root, root[i].parent)
          /\ IsItem(root, i) /\ Tagged(root, i)
          /\ root[j].tag = "blockquote" /\ root[j].attrib = <<>>

(***************************************************************************)
(* C10: an li whose list is not reached from the root by direct-child      *)
(* steps through lists and items has no level after run, unless it had one *)
(* before.                                                                 *)
(***************************************************************************)
C10_UnreachedItemsUntagged ==
    runs >= 1 =>
        \A i \in Elements :
            (IsItem(root, i) /\ ~OnListChain(root, i) /\ Tagged(root, i))
            => Tagged(parsed, i)

\* a list in a blockquote inside a tagged item: its item is left without a
\* level
C10_Witness ==
    /\ runs = 1
    /\ \E j \in Elements :
          /\ ListItem(root, j) /\ ~Tagged(root, j)
          /\ TagOf(root, ListHolder(root, j)) = "blockquote"
          /\ IsItem(root, root[ListHolder(root, j)].parent)
          /\ Tagged(root, root[ListHolder(root, j)].parent)

(***************************************************************************)
(* Vocabulary of the properties of the preview pipeline.                   *)
(***************************************************************************)
\* lit occurs in s, in any case of its letters
Occurs(s, lit) == \E p \in 1..Len(s) : LitAt(s, p, lit, TRUE)

\* lit occurs in s exactly as written
OccursExactly(s, lit) ==
    \E p \in 1..(Len(s) + 1 - Len(lit)) : SubSeq(s, p, p + Len(lit) - 1) = lit

Positions(s, c) == {p \in 1..Len(s) : s[p] = c}

\* the note is one list: its tree as the tree processor leaves it
OneList == Len(md_text) = 1 /\ md_text[1].kind = "list"

NoteTree == IF OneList THEN run(md_text[1].tree) ELSE <<>>

NoteItems == {i \in 1..Len(NoteTree) : NoteTree[i].tag = "li"}

\* item i carries a level of 0..max_styled_depth
Styled(t, i) ==
    /\ t[i].tag = "li"
    /\ HasAttr(t, i, LevelAttr)
    /\ \E d \in 0..max_styled_depth : GetAttr(t, i, LevelAttr) = str(d)

ItemDepth(t, i) ==
    CHOOSE d \in 0..max_styled_depth : GetAttr(t, i, LevelAttr) = str(d)

AllStyled == NoteItems # {} /\ \A i \in NoteItems : Styled(NoteTree, i)

\* what starts the line of an item of depth d
BulletLine(d) == current_indent(d) \o <<current_bullet(d), " ">>

BulletGlyphs == {bullets[k] : k \in 1..Len(bullets)}

ListTagTexts == {<<"<", "u", "l">>, <<"<", "/", "u", "l">>, <<"<", "o", "l">>, <<"<", "/", "o", "l">>, <<"<", "l", "i">>, <<"<", "/", "l", "i">>}

\* the line of item i starts at a line start and its letter is at p
ItemLineAt(s, p, d) ==
    LET b == BulletLine(d)
    IN  /\ p > Len(b)
        /\ SubSeq(s, p - Len(b), p - 1) = b
        /\ (p - Len(b) = 1 \/ s[p - Len(b) - 1] = "\n")

(***************************************************************************)
(* C2: for a list whose items all carry a level of 0..3, the output has    *)
(* no ul, ol or li tag and one bulleted line per item: the letter of each  *)
(* item stands once, behind depth indent units, the bullet of its depth    *)
(* and a space at the start of a line; the lines come in document order    *)
(* and there are as many bullets as items.                                 *)
(***************************************************************************)
C2_OneBulletLinePerItem ==
    (pc = "done" /\ AllStyled) =>
        /\ \A tag \in ListTagTexts : ~Occurs(html_text, tag)
        /\ \A i \in NoteItems :
              \E p \in 1..Len(html_text) :
                 /\ Positions(html_text, Letters[i]) = {p}
                 /\ ItemLineAt(html_text, p, ItemDepth(NoteTree, i))
        /\ \A i, j \in NoteItems :
              i < j => \A p \in Positions(html_text, Letters[i]) :
                          \A q \in Positions(html_text, Letters[j]) : p < q
        /\ Cardinality({p \in 1..Len(html_text) : html_text[p] \in BulletGlyphs})
              = Cardinality(NoteItems)

C2_Witness ==
    /\ pc = "done"
    /\ md_text = <<List(FourLevels)>>
    /\ AllStyled
    /\ \E p \in 1..Len(html_text) :
          html_text[p] = "J" /\ ItemLineAt(html_text, p, 3)

RECURSIVE Rendered(_, _)
\* element i of tree t once every item of a level of 0..max_styled_depth
\* is replaced from its opening tag to its own closing tag
Rendered(t, i) ==
    LET kids  == Children(t, i)
        text  == IF t[i].tag = "li" THEN <<Letters[i]>> ELSE <<>>
        lead  == IF text = <<>> /\ kids # <<>> THEN <<"\n">> ELSE <<>>
        inner == text \o lead
                    \o Concat([k \in 1..Len(kids) |->
                                  Rendered(t, kids[k]) \o <<"\n">>])
    IN  IF Styled(t, i)
        THEN <<"\n">> \o BulletLine(ItemDepth(t, i)) \o strip(inner) \o <<"\n">>
        ELSE <<"<">> \o TagChars(t[i].tag) \o AttribText(t[i].attrib)
                 \o <<">">> \o inner \o <<"<", "/">> \o TagChars(t[i].tag) \o <<">">>

(***************************************************************************)
(* C3: once the loop over the depths is through, every item that carried   *)
(* a level d of 0..3 stands replaced, from its opening tag to its own      *)
(* closing tag, by newline, d indent units, the bullet of d, a space, its  *)
(* trimmed inner content and a newline, whatever is nested in it.          *)
(***************************************************************************)
C3_ItemReplacedWhole ==
    (pc = "ul_ol" /\ OneList) =>
        \A i \in NoteItems :
           Styled(NoteTree, i) => OccursExactly(html_text, Rendered(NoteTree, i))

\* the same, for the lists whose items all carry a level of 0..3
C3_StyledListsReplacedWhole ==
    (pc = "ul_ol" /\ AllStyled) =>
        \A i \in NoteItems : OccursExactly(html_text, Rendered(NoteTree, i))

OneFence == Len(md_text) = 1 /\ md_text[1].kind = "fence"

(***************************************************************************)
(* C4: the code of a fenced block stands in the monospace span escaped     *)
(* once: each of its special characters as the one entity that the         *)
(* renderer shows as that character.                                       *)
(***************************************************************************)
C4_FenceEscapedOnce ==
    (pc = "done" /\ OneFence) =>
        html_text = strip(<<"<", "t", "t", ">", "\n">>
                            \o markup_escape_text(md_text[1].text \o <<"\n">>)
                            \o <<"\n", "<", "/", "t", "t", ">", "\n">>)

TitleSpan == heading_span(1) \o Title \o <<"<", "/", "s", "p", "a", "n", ">">>

(***************************************************************************)
(* C5: the note "# Title" comes out as the heading span that holds         *)
(* "Title", with no h1 tag and with nothing behind the span: the newline   *)
(* of the heading rule is trimmed by the return.                           *)
(***************************************************************************)
C5_TitleSpanAlone ==
    (pc = "done" /\ md_text = <<Heading(1, Title)>>) =>
        /\ html_text = TitleSpan
        /\ ~Occurs(html_text, <<"h", "1">>)

C5_Witness ==
    /\ pc = "done"
    /\ md_text = <<Heading(1, Title)>>
    /\ OccursExactly(html_text, Title)

\* C5 as it is written: the span is followed by a newline
C5_TitleSpanThenNewline ==
    (pc = "done" /\ md_text = <<Heading(1, Title)>>) =>
        /\ html_text = TitleSpan \o <<"\n">>
        /\ ~Occurs(html_text, <<"h", "1">>)

\* the statements in the order of the program text
ProgramOrder ==
    <<"markdown", "h1", "h2", "h3", "h4", "h5", "h6", "strong", "em", "b",
      "i", "pre_code", "pre", "code", "p", "br", "img", "li", "ul_ol",
      "li_strip", "hr", "return", "done">>

\* the place of a label in the program text, 0 for the exit by an exception
Place(label) ==
    IF \E k \in 1..Len(ProgramOrder) : ProgramOrder[k] = label
    THEN CHOOSE k \in 1..Len(ProgramOrder) : ProgramOrder[k] = label
    ELSE 0

\* what the statement at pc evaluates to
Upcoming ==
    IF pc = "markdown" THEN markdown_markdown(md_text)
    ELSE apply(pc, depth, html_text)

(***************************************************************************)
(* C6: on every note, broken HTML included, the conversion never ends in   *)
(* an exception: the statement at hand evaluates to a string, and every    *)
(* step goes on to the next statement of the program text or to the next   *)
(* turn of the loop over the depths, so that the run is through every      *)
(* statement and at its return after a bounded number of steps.            *)
(***************************************************************************)
C6_Total ==
    /\ [](pc # "raised")
    /\ [](pc \in {ProgramOrder[k] : k \in 2..(Len(ProgramOrder) - 1)}
             => ~Raised(Upcoming))
    /\ [][\/ Place(pc') = Place(pc) + 1
          \/ /\ pc = "li" /\ pc' = "li"
             /\ RangeIndex(depth') = RangeIndex(depth) + 1]_vars

C6_Witness ==
    /\ pc = "done"
    /\ md_text = <<Html(<<Part(FALSE, <<"<", "/", "p", ">", "<", "p", ">", "x", "<", "p", ">", "y", "<", "/", "p", ">", "<", "/", "l", "i", ">", "<", "u", "l">>)>>)>>
    /\ html_text = <<"<", "/", "p", ">", "x", "<", "p", ">", "y", "\n", "\n", "<", "u", "l">>

\* stand-ins for the tags without a rule: characters no pattern names
Holes ==
    <<"{1}", "{2}", "{3}", "{4}", "{5}", "{6}", "{7}", "{8}", "{9}", "{10}",
      "{11}", "{12}", "{13}", "{14}", "{15}">>

\* the HTML of the parts, each tag without a rule as one opaque character
Opaque(parts) ==
    Concat([k \in 1..Len(parts) |->
               IF parts[k].u THEN <<Holes[k]>> ELSE parts[k].s])

\* s with the tags back in the place of their stand-ins
Restore(s, parts) ==
    Concat([p \in 1..Len(s) |->
               IF \E k \in 1..Len(parts) : s[p] = Holes[k]
               THEN parts[CHOOSE k \in 1..Len(parts) : s[p] = Holes[k]].s
               ELSE <<s[p]>>])

MixedNote ==
    /\ Len(md_text) = 1 /\ md_text[1].kind = "html"
    /\ \E k \in 1..Len(md_text[1].parts) : md_text[1].parts[k].u

(***************************************************************************)
(* C7: the tags without a rule stand in the output character for           *)
(* character, and around them the output is what the conversion makes of   *)
(* the input with those tags as opaque text.                               *)
(***************************************************************************)
C7_UnknownTagsVerbatim ==
    (pc = "done" /\ MixedNote) =>
        html_text = Restore(html_to_pango(Opaque(md_text[1].parts)),
                            md_text[1].parts)

C7_Witness ==
    /\ pc = "done"
    /\ MixedNote
    /\ OccursExactly(html_text, <<"<", "t", "a", "b", "l", "e", ">", "\n", "<", "t", "r", ">", "\n", "<", "t", "d", ">", "<", "b", ">", "x", "<", "/", "b", ">", "<", "/", "t", "d", ">">>)

RECURSIVE ChainDepth(_, _)
\* how many list items stand above list item i on the chain
\* root -> ul/ol -> li -> ul/ol -> li ...
ChainDepth(t, i) ==
    IF ListHolder(t, i) = 0 THEN 0 ELSE 1 + ChainDepth(t, ListHolder(t, i))

RECURSIVE ItemsAbove(_, _)
\* how many li elements element i is nested in, at whatever distance
ItemsAbove(t, i) ==
    IF t[i].parent = 0 THEN 0
    ELSE (IF IsItem(t, t[i].parent) THEN 1 ELSE 0) + ItemsAbove(t, t[i].parent)

\* how many level attributes element i carries
LevelCount(t, i) ==
    Cardinality({k \in 1..Len(t[i].attrib) : t[i].attrib[k][1] = LevelAttr})

(***************************************************************************)
(* C11: after run, a list item that is reached from the root by the chain  *)
(* root -> ul/ol -> li -> ul/ol -> li ... of direct-child steps carries    *)
(* exactly one level attribute, and its value is the number of list items  *)
(* above it on that chain; a list item that is not reached so (its list    *)
(* is in a blockquote) carries none.                                       *)
(***************************************************************************)
C11_ChainItemsCarryOneLevel ==
    runs >= 1 =>
        \A i \in Elements :
            ListItem(root, i) =>
                IF OnListChain(root, i)
                THEN /\ LevelCount(root, i) = 1
                     /\ Level(root, i) = str(ChainDepth(root, i))
                ELSE LevelCount(root, i) = 0

\* run was applied to a tree with a list in an item of a list in an item
C11_Witness ==
    /\ runs >= 1
    /\ \E i \in Elements :
          /\ ListItem(root, i) /\ OnListChain(root, i)
          /\ ChainDepth(root, i) = 2 /\ Level(root, i) = "2"
          /\ LevelCount(root, i) = 1

\* C11 as it is written: every li directly in a ul or ol carries exactly
\* one level attribute, the number of list items it is nested in
C11_EveryItemCarriesOneLevel ==
    runs >= 1 =>
        \A i \in Elements :
            ListItem(root, i) =>
                /\ LevelCount(root, i) = 1
                /\ Level(root, i) = str(ItemsAbove(root, i))

\* item i carries a level above max_styled_depth
TooDeep(t, i) ==
    /\ t[i].tag = "li"
    /\ HasAttr(t, i, LevelAttr)
    /\ ~Styled(t, i)

\* a bullet and a space stand before position p of s
BulletBefore(s, p, bullet) ==
    p >= 3 /\ s[p - 1] = " " /\ s[p - 2] = bullet

(***************************************************************************)
(* C12: an item that carries a level above 3 comes out as a bulleted       *)
(* line: its letter stands behind the last of the bullets and a space.     *)
(***************************************************************************)
C12_DeepItemsBulleted ==
    (pc = "done" /\ OneList) =>
        \A i \in NoteItems :
           TooDeep(NoteTree, i) =>
              \E p \in Positions(html_text, Letters[i]) :
                 BulletBefore(html_text, p, bullets[Len(bullets)])

\* item i is one the loop over the depths has no pattern for
Unmatched(t, i) == t[i].tag = "li" /\ ~Styled(t, i)

RECURSIVE SerializeBare(_, _)
\* element i as HTML, the tags of the unmatched items left out
SerializeBare(t, i) ==
    LET kids  == Children(t, i)
        text  == IF t[i].tag = "li" THEN <<Letters[i]>> ELSE <<>>
        lead  == IF text = <<>> /\ kids # <<>> THEN <<"\n">> ELSE <<>>
        inner == text \o lead
                    \o Concat([k \in 1..Len(kids) |->
                                  SerializeBare(t, kids[k]) \o <<"\n">>])
    IN  IF Unmatched(t, i) THEN inner
        ELSE <<"<">> \o TagChars(t[i].tag) \o AttribText(t[i].attrib)
                 \o <<">">> \o inner \o <<"<", "/">> \o TagChars(t[i].tag) \o <<">">>

\* the HTML of list tree t without the tags of its unmatched items
BareHtml(t) ==
    strip(Concat([k \in 1..Len(Children(t, 0)) |->
                     SerializeBare(t, Children(t, 0)[k]) \o <<"\n">>]))

(***************************************************************************)
(* C13: for a list with items the loop over the depths does not match,     *)
(* the output is what the conversion makes of the same HTML without the    *)
(* opening and closing tags of those items: their text stays in place,     *)
(* nothing is put out for them, and the lines of the other items are the   *)
(* same.                                                                   *)
(***************************************************************************)
C13_UnmatchedItemsAsIfBare ==
    (pc = "done" /\ OneList /\ \E i \in NoteItems : Unmatched(NoteTree, i)) =>
        html_text = html_to_pango(BareHtml(NoteTree))

ImageBlocks == {k \in 1..Len(md_text) : md_text[k].kind = "image"}

\* the placeholder of an image with the alt text and the path of block b
Placeholder(b) ==
    <<"<", "i", ">", "[", "I", "m", "a", "g", "e", ":", " ">>
        \o (IF b.parts[1] = <<>> THEN <<"(", "N", "o", " ", "a", "l", "t", " ", "t", "e", "x", "t", ")">>
            ELSE <<"<", "t", "t", ">">> \o markup_escape_text(AttribEscape(b.parts[1]))
                     \o <<"<", "/", "t", "t", ">">>)
        \o <<" ", "(", "s", "r", "c", ":", " ", "<", "t", "t", ">">> \o markup_escape_text(AttribEscape(b.parts[2]))
        \o <<"<", "/", "t", "t", ">", ")", "]", "<", "/", "i", ">">>

\* lit stands in s with a newline, or an end of s, on either side
Flanked(s, lit) ==
    \E p \in 1..(Len(s) + 1 - Len(lit)) :
        /\ SubSeq(s, p, p + Len(lit) - 1) = lit
        /\ p = 1 \/ s[p - 1] = "\n"
        /\ p + Len(lit) = Len(s) + 1 \/ s[p + Len(lit)] = "\n"

\* lit stands in s with a newline on either side
FlankedByNewlines(s, lit) ==
    OccursExactly(s, <<"\n">> \o lit \o <<"\n">>)

(***************************************************************************)
(* C14: the output holds, for every image of the note, the placeholder     *)
(* with the escaped alt text and the escaped path in monospace markers,    *)
(* "(No alt text)" in the place of an empty or absent alt text; the        *)
(* placeholder has a newline on either side, except where it starts or     *)
(* ends the output, which the return trims; no img tag is left.            *)
(***************************************************************************)
C14_ImagePlaceholders ==
    pc = "done" =>
        /\ \A k \in ImageBlocks : Flanked(html_text, Placeholder(md_text[k]))
        /\ \A k \in ImageBlocks :
              md_text[k].text # <<>> =>
                  FlankedByNewlines(html_text, Placeholder(md_text[k]))
        /\ md_text = <<NoAlt>> =>
              html_text
                  = <<"x", "\n", "<", "i", ">", "[", "I", "m", "a", "g", "e", ":", " ", "(", "N", "o", " ", "a", "l", "t", " ", "t", "e", "x", "t", ")", " ", "(", "s", "r", "c", ":", " ", "<", "t", "t", ">", "p", ".", "p", "n", "g", "<", "/", "t", "t", ">", ")", "]", "<", "/", "i", ">", "\n", "y">>
        /\ ~re_search(img_pattern, html_text).ok

C14_Witness ==
    /\ pc = "done"
    /\ md_text = <<Picture(<<"x">>, <<>>, <<"a", "&", "b", ".", "p", "n", "g">>)>>
    /\ html_text
           = <<"x", "\n", "<", "i", ">", "[", "I", "m", "a", "g", "e", ":", " ", "(", "N", "o", " ", "a", "l", "t", " ", "t", "e", "x", "t", ")", " ", "(", "s", "r", "c", ":", " ", "<", "t", "t", ">", "a", "&", "a", "m", "p", ";", "a", "m", "p", ";", "b", ".", "p", "n", "g", "<", "/", "t", "t", ">", ")", "]", "<", "/", "i", ">", "\n", "x">>

\* C14 as it is written: every placeholder has a newline on either side
C14_PlaceholdersFlankedByNewlines ==
    pc = "done" =>
        \A k \in ImageBlocks :
            FlankedByNewlines(html_text, Placeholder(md_text[k]))

\* the note is made of headings and paragraphs of plain text
HeadingNote ==
    /\ \E k \in 1..Len(md_text) : md_text[k].kind = "heading"
    /\ \A k \in 1..Len(md_text) : md_text[k].kind \in {"heading", "para"}

\* the span of a heading of level n: size and weight
LevelSpan(n) ==
    CASE n = 1 -> <<"<", "s", "p", "a", "n", " ", "s", "i", "z", "e", "=", "\"", "x", "x", "-", "l", "a", "r", "g", "e", "\"", " ", "w", "e", "i", "g", "h", "t", "=", "\"", "b", "o", "l", "d", "\"", ">">>
      [] n = 2 -> <<"<", "s", "p", "a", "n", " ", "s", "i", "z", "e", "=", "\"", "x", "-", "l", "a", "r", "g", "e", "\"", " ", "w", "e", "i", "g", "h", "t", "=", "\"", "b", "o", "l", "d", "\"", ">">>
      [] n = 3 -> <<"<", "s", "p", "a", "n", " ", "s", "i", "z", "e", "=", "\"", "l", "a", "r", "g", "e", "\"", " ", "w", "e", "i", "g", "h", "t", "=", "\"", "b", "o", "l", "d", "\"", ">">>
      [] n = 4 -> <<"<", "s", "p", "a", "n", " ", "w", "e", "i", "g", "h", "t", "=", "\"", "b", "o", "l", "d", "\"", ">">>
      [] n = 5 -> <<"<", "s", "p", "a", "n", " ", "w", "e", "i", "g", "h", "t", "=", "\"", "b", "o", "l", "d", "\"", " ", "s", "i", "z", "e", "=", "\"", "s", "m", "a", "l", "l", "\"", ">">>
      [] n = 6 -> <<"<", "s", "p", "a", "n", " ", "w", "e", "i", "g", "h", "t", "=", "\"", "b", "o", "l", "d", "\"", " ", "s", "i", "z", "e", "=", "\"", "x", "-", "s", "m", "a", "l", "l", "\"", ">">>

\* block b of a note of headings and paragraphs, converted
BlockPango(b) ==
    IF b.kind = "heading"
    THEN LevelSpan(b.level) \o b.text \o <<"<", "/", "s", "p", "a", "n", ">", "\n">>
    ELSE b.text \o <<"\n", "\n">>

(***************************************************************************)
(* C15: a note of headings and paragraphs comes out with every heading of  *)
(* level n as the span of level n around its text and one newline behind   *)
(* it, the blocks still joined by the newline that stood between them and  *)
(* the whole trimmed, so that the last heading has nothing behind it; the  *)
(* six spans differ and no heading tag is left.                            *)
(***************************************************************************)
C15_HeadingSpans ==
    (pc = "done" /\ HeadingNote) =>
        /\ html_text
              = strip(Concat([k \in 1..Len(md_text) |->
                                 BlockPango(md_text[k])
                                     \o (IF k < Len(md_text) THEN <<"\n">>
                                         ELSE <<>>)]))
        /\ \A m, n \in 1..6 : m # n => LevelSpan(m) # LevelSpan(n)
        /\ \A n \in 1..6 :
              /\ ~Occurs(html_text, <<"<", "h">> \o <<ToString(n)>>)
              /\ ~Occurs(html_text, <<"<", "/", "h">> \o <<ToString(n)>>)

C15_Witness ==
    /\ pc = "done"
    /\ HeadingNote
    /\ Len(md_text) = 5
    /\ OccursExactly(html_text,
                     <<"<", "s", "p", "a", "n", " ", "w", "e", "i", "g", "h", "t", "=", "\"", "b", "o", "l", "d", "\"", ">", "c", "<", "/", "s", "p", "a", "n", ">", "\n", "\n", "<", "s", "p", "a", "n", " ", "w", "e", "i", "g", "h", "t", "=", "\"", "b", "o", "l", "d", "\"", " ", "s", "i", "z", "e", "=", "\"", "s", "m", "a", "l", "l", "\"", ">", "d", "<", "/", "s", "p", "a", "n", ">", "\n", "\n", "<", "s", "p", "a", "n", " ", "w", "e", "i", "g", "h", "t", "=", "\"", "b", "o", "l", "d", "\"", " ", "s", "i", "z", "e", "=", "\"", "x", "-", "s", "m", "a", "l", "l", "\"", ">", "e", "<", "/", "s", "p", "a", "n", ">">>)

\* C15 as it is written: every heading span has a newline behind it
C15_EverySpanThenNewline ==
    (pc = "done" /\ HeadingNote) =>
        \A k \in 1..Len(md_text) :
            md_text[k].kind = "heading" =>
                OccursExactly(html_text, BlockPango(md_text[k]))

EmphasisNote == md_text \in EmphasisSamples

RECURSIVE RenameFrom(_, _)
\* s from position p on, the tags strong and em renamed to b and i
RenameFrom(s, p) ==
    IF p > Len(s) THEN <<>>
    ELSE IF LitAt(s, p, <<"<", "s", "t", "r", "o", "n", "g", ">">>, TRUE)
         THEN <<"<", "b", ">">> \o RenameFrom(s, p + 8)
    ELSE IF LitAt(s, p, <<"<", "/", "s", "t", "r", "o", "n", "g", ">">>, TRUE)
         THEN <<"<", "/", "b", ">">> \o RenameFrom(s, p + 9)
    ELSE IF LitAt(s, p, <<"<", "e", "m", ">">>, TRUE)
         THEN <<"<", "i", ">">> \o RenameFrom(s, p + 4)
    ELSE IF LitAt(s, p, <<"<", "/", "e", "m", ">">>, TRUE)
         THEN <<"<", "/", "i", ">">> \o RenameFrom(s, p + 5)
    ELSE <<s[p]>> \o RenameFrom(s, p + 1)

FoldAll(s) == [k \in 1..Len(s) |-> Fold(s[k])]

\* s holds no bold or italic tag with an upper-case letter
LowerCaseTags(s) ==
    \A lit \in {<<"<", "B", ">">>, <<"<", "/", "B", ">">>, <<"<", "I", ">">>, <<"<", "/", "I", ">">>} : ~OccursExactly(s, lit)

\* the step is the rule for b or the rule for i
BoldOrItalicStep == pc \in {"b", "i"} /\ pc' \in {"i", "pre_code"}

(***************************************************************************)
(* C16: once the rules for strong and em are through, every strong tag is  *)
(* a b tag and every em tag an i tag, the content between them as it was,  *)
(* also when one is nested in the other; the rules for b and i that follow *)
(* leave the string unchanged when its b and i tags are in lower case, and *)
(* change nothing but the letter case of tags otherwise.                   *)
(***************************************************************************)
C16_StrongEmThenUnchanged ==
    /\ []((pc = "b" /\ EmphasisNote) =>
             html_text = RenameFrom(markdown_markdown(md_text), 1))
    /\ [][BoldOrItalicStep =>
             /\ LowerCaseTags(html_text) => html_text' = html_text
             /\ FoldAll(html_text') = FoldAll(html_text)]_vars

C16_Witness ==
    /\ pc = "pre_code"
    /\ md_text = <<Nested>>
    /\ html_text = <<"<", "p", ">", "<", "b", ">", "a", " ", "<", "i", ">", "b", "<", "/", "i", ">", "<", "/", "b", ">", " ", "<", "i", ">", "c", " ", "<", "b", ">", "d", "<", "/", "b", ">", "<", "/", "i", ">", "<", "/", "p", ">">>

\* C16 as it is written: the rules for b and i leave the string unchanged,
\* whatever the letter case of the tags
C16_BoldItalicUnchanged ==
    [][BoldOrItalicStep => html_text' = html_text]_vars

(***************************************************************************)
(* C17: HTML with its tags in upper case comes out as the same HTML with   *)
(* its tags in lower case does, and HTML with newlines in the content of   *)
(* its elements comes out as the same HTML with that content on one line   *)
(* does, the newlines in their places: every rule matches its tag names    *)
(* in any letter case and every capture spans newlines.                    *)
(***************************************************************************)
C17_AnyCaseAnyLines ==
    pc = "done" =>
        \A s \in PlainForms :
            /\ md_text = RawNote(UpperTags(s)) => html_text = html_to_pango(s)
            /\ md_text = RawNote(WithNewlines(s)) =>
                  html_text = WithNewlines(html_to_pango(s))

C17_Witness ==
    /\ pc = "done"
    /\ \E s \in PlainForms : md_text = RawNote(UpperTags(s))
    /\ OccursExactly(md_text[1].parts[1].s, <<"<", "L", "I", " ", "D", "A", "T", "A", "-", "L", "I", "-", "L", "E", "V", "E", "L", "=", "\"", "1", "\"", ">", "D", "_", "E", "<", "/", "L", "I", ">">>)
    /\ html_text = <<"U+2022">> \o <<" ", "A", "_", "B", "\n", "\n", "\n">> \o <<"U+2022">>
                       \o <<" ", "C", "\n", "\n", " ", " ", " ", " ", " ", " ", " ", "-", " ", "D", "_", "E">>

C17_WitnessLines ==
    /\ pc = "done"
    /\ \E s \in PlainForms : md_text = RawNote(WithNewlines(s))
    /\ OccursExactly(html_text, <<"<", "b", ">", "a", "\n", "b", "<", "/", "b", ">", " ", "<", "i", ">", "c", "\n", "d", "<", "/", "i", ">", " ", "<", "b", ">", "e", "\n", "f", "<", "/", "b", ">">>)

\* the place in ran of the processor called name, 0 when it has not run
RanAt(name) ==
    IF \E k \in 1..Len(ran) : ran[k] = name
    THEN CHOOSE k \in 1..Len(ran) : ran[k] = name
    ELSE 0

(***************************************************************************)
(* C18: when ListNestingTreeprocessor has run, the block parser had built  *)
(* the whole tree of the note before, the inline processor of the library  *)
(* had run before it, and the processors 'prettify' and 'attr_list' run    *)
(* after it; the HTML is the one the preview works on.                     *)
(***************************************************************************)
C18_AfterBlocksAndInline ==
    /\ RanAt("listnesting") # 0 =>
          /\ parsed = md_text[1].tree
          /\ RanAt("inline") # 0 /\ RanAt("inline") < RanAt("listnesting")
          /\ \A name \in {"prettify", "attr_list"} :
                RanAt(name) = 0 \/ RanAt(name) > RanAt("listnesting")
    /\ pc = "converted" =>
          /\ runs = 1
          /\ html_text = markdown_markdown(md_text)

C18_Witness ==
    /\ pc = "converted"
    /\ ran = <<"inline", "listnesting", "prettify", "attr_list">>
    /\ md_text = <<List(TwoNested)>>
    /\ Level(root, 4) = "1"

\* C18 as it is written: the processor runs before the inline processor
C18_BeforeInline ==
    RanAt("listnesting") # 0 =>
        /\ parsed = md_text[1].tree
        /\ RanAt("inline") = 0 \/ RanAt("inline") > RanAt("listnesting")

\* the opening tag of an item of level k that carries nothing but its level
LevelTag(k) == <<"<", "l", "i", " ", "d", "a", "t", "a", "-", "l", "i", "-", "l", "e", "v", "e", "l", "=", "\"">> \o <<str(k)>> \o <<"\"", ">">>

\* the start of the opening tag of an item of level k, whatever follows
LevelTagStart(k) == <<"<", "l", "i", " ", "d", "a", "t", "a", "-", "l", "i", "-", "l", "e", "v", "e", "l", "=", "\"">> \o <<str(k)>> \o <<"\"">>

\* the levels the loop over the depths has been through when depth is d
Deeper(d) == (d + 1)..max_styled_depth

FenceNote == md_text \in FenceSamples

FenceBlocks == {k \in 1..Len(md_text) : md_text[k].kind = "fence"}

\* the content of the code element of fenced block b
FenceCode(b) ==
    Concat([k \in 1..Len(b.text) |-> FenceEscapeChar(b.text[k])]) \o <<"\n">>

\* the content of the code element of b, escaped by _html_to_pango, in one
\* monospace span with a newline on either side
FenceSpan(b) ==
    <<"<", "t", "t", ">", "\n">> \o markup_escape_text(FenceCode(b)) \o <<"\n", "<", "/", "t", "t", ">">>

\* how many times lit stands in s
Count(s, lit) ==
    Cardinality({p \in 1..Len(s) : LitAt(s, p, lit, FALSE)})

(***************************************************************************)
(* C20: once the rule for pre+code is through, the content of every        *)
(* fenced block stands escaped in one monospace span with a newline on     *)
(* either side; the rules for pre and for code that follow leave the       *)
(* string as it is, and at the end there is still one span for every       *)
(* block, with the same content.  Inline code outside a pre block is one   *)
(* monospace span around its content as it was.                            *)
(***************************************************************************)
C20_CodeWrappedOnce ==
    /\ []((FenceNote /\ Place(pc) > Place("pre_code")) =>
             /\ \A k \in FenceBlocks :
                   OccursExactly(html_text, FenceSpan(md_text[k]))
             /\ Count(html_text, <<"<", "t", "t", ">">>) = Cardinality(FenceBlocks)
             /\ Count(html_text, <<"<", "/", "t", "t", ">">>) = Cardinality(FenceBlocks))
    /\ [][(FenceNote /\ pc \in {"pre", "code"}) => html_text' = html_text]_vars
    /\ []((md_text = InlineCode /\ pc = "done") =>
             html_text = <<"a", " ", "<", "t", "t", ">", "x", "&", "l", "t", ";", "y", "<", "/", "t", "t", ">", " ", "b", "\n", "\n", "\n", "<", "t", "t", ">", "\n", "c", "&", "a", "m", "p", ";", "l", "t", ";", "d", "\n", "\n", "<", "/", "t", "t", ">">>)

C20_Witness ==
    /\ pc = "p"
    /\ FenceNote
    /\ Len(md_text) = 3
    /\ OccursExactly(html_text,
                     <<"<", "t", "t", ">", "\n", "i", "f", " ", "a", "&", "a", "m", "p", ";", "l", "t", ";", "b", " ", "&", "a", "m", "p", ";", "a", "m", "p", ";", "&", "a", "m", "p", ";", "a", "m", "p", ";", " ", "c", ":", "\n", "\n", "<", "/", "t", "t", ">", "\n">>)

\* how many of the calls are calls on element i
CallsOn(calls, i) == Cardinality({k \in 1..Len(calls) : calls[k] = i})

\* run, handed the tree before and making the calls of set, returned after
OneSetPerItem(before, after, calls) ==
    /\ Len(after) = Len(before)
    /\ Len(calls) <= Len(before)
    /\ \A i \in 1..Len(before) :
          /\ CallsOn(calls, i) <= 1
          /\ CallsOn(calls, i) = 1 => before[i].tag = "li"
          /\ CallsOn(calls, i) = 1 <=> after[i] # before[i]
          /\ before[i].tag \notin {"ul", "ol", "li"} => after[i] = before[i]

(***************************************************************************)
(* C21: on every tree run comes to an end and returns the tree: it can     *)
(* always be called, it calls set at most once on every element and only   *)
(* on li elements, so it makes no more calls than the tree has elements,   *)
(* and the elements that are not ul, ol or li are in the tree it returns   *)
(* as they were.                                                           *)
(***************************************************************************)
C21_RunEndsOneSetPerItem ==
    /\ runs = 0 => ENABLED Run
    /\ runs = 1 => OneSetPerItem(parsed, root, SetCalls(parsed))

C21_Witness ==
    /\ runs = 1
    /\ \E i, j \in 1..Len(parsed) :
          /\ parsed[i].tag = "blockquote"
          /\ parsed[j].tag = "li"
          /\ parsed[i].parent = parsed[j].parent
          /\ root[j] # parsed[j]
          /\ root[i] = parsed[i]

(***************************************************************************)
(* Properties of sanitize_filename.                                        *)
(***************************************************************************)
\* the characters a file name is made of
NameChars == WordChars \cup {".", "-"}

\* a file name that can be written into a notes folder
GoodName(f) ==
    /\ f # <<>>
    /\ endswith(f, <<".", "m", "k">>)
    /\ \A k \in 1..Len(f) : f[k] \in NameChars

(* C30: for every title the result of sanitize_filename is non-empty, ends *)
(* with ".mk" and holds only word characters, "." and "-" (so no path      *)
(* separator and no whitespace); a title that sanitizes to nothing gives   *)
(* "untitled.mk"; and sanitizing the result again gives the same name.     *)
C30_SanitizedNames ==
    /\ pc = "sanitized" =>
           /\ GoodName(filename)
           /\ sanitized(title) = <<>> => filename = <<"u", "n", "t", "i", "t", "l", "e", "d", ".", "m", "k">>
           /\ (\A k \in 1..Len(title) : title[k] \notin NameChars \cup Whitespace)
                  => filename = <<"u", "n", "t", "i", "t", "l", "e", "d", ".", "m", "k">>
    /\ pc = "again" =>
           /\ GoodName(filename)
           /\ filename = sanitize_filename(title)

\* a title with a path separator, a blank and an extension has been
\* sanitized twice
C30_Witness ==
    /\ pc = "again"
    /\ title = <<"/", " ", ".", "M">>
    /\ filename = <<"_", ".", "M", ".", "m", "k">>

\* a title of nothing but an extension gave untitled.mk
C30_WitnessUntitled ==
    /\ pc = "again"
    /\ title = <<".", "M", "k">>
    /\ filename = <<"u", "n", "t", "i", "t", "l", "e", "d", ".", "m", "k">>

(***************************************************************************)
(* Properties of the notes window.                                         *)
(***************************************************************************)
\* what update_markdown_preview rendered agrees with the renderer there is
RenderedBy(w) ==
    /\ w.rendered.html_to_pango <=>
           (w.rendered.by # "nothing" /\ ~w.WEBKIT_AVAILABLE)
    /\ w.rendered.by # "nothing" =>
           /\ w.rendered.note # None /\ w.rendered.mode
           /\ w.WEBKIT_AVAILABLE =>
                  /\ w.rendered.by = "preview_webview"
                  /\ w.rendered.base_uri = <<dirname(w.rendered.note)>>
           /\ ~w.WEBKIT_AVAILABLE => w.rendered.by = "preview_label"

(* C22: update_markdown_preview calls _html_to_pango if and only if        *)
(* WEBKIT_AVAILABLE is false, and WEBKIT_AVAILABLE never changes after     *)
(* startup; with the web view the HTML is loaded with the folder of the    *)
(* note as base URI; and nothing is rendered unless a note is open and     *)
(* preview_mode is true.                                                   *)
C22_RendererFixedAtStartup ==
    [][/\ app'.WEBKIT_AVAILABLE = app.WEBKIT_AVAILABLE
       /\ RenderedBy(app')]_vars

\* the web view has rendered a note of the folder
C22_Witness ==
    /\ app.is_open
    /\ app.WEBKIT_AVAILABLE
    /\ app.rendered.by = "preview_webview"
    /\ app.rendered.base_uri = <<"f">>
    /\ app.rendered.note = <<"f", <<"a", ".", "m", "k">>>>

\* the label has rendered a note and _html_to_pango was called
C22_WitnessPango ==
    /\ app.is_open
    /\ ~app.WEBKIT_AVAILABLE
    /\ app.rendered.by = "preview_label"
    /\ app.rendered.html_to_pango
    /\ app.current_note_filename # None /\ app.preview_mode

\* the step is one run of on_new_note_clicked
NewNoteStep == app'.event = "new" /\ app'.events = app.events + 1

\* the files that were on disk keep their content, but for the current note
\* when the user chose to save it
ExistingFilesKept ==
    \A p \in NotePaths :
        app.files[p] # NoFile =>
            \/ app'.files[p] = app.files[p]
            \/ /\ p = app.current_note_filename /\ app.unsaved_changes
               /\ app'.files[p] = app.editor_buffer

\* "Note Exists" is shown only when a file is at the path the note would be
\* written to: notes directory / target folder / sanitized name
RefusedOnlyAtTarget ==
    app'.message.title = "Note Exists" =>
        app.files[<<target_dir(app), app'.message.about>>] # NoFile

(* C23: on_new_note_clicked never overwrites an existing file: whatever    *)
(* row is selected, a file that exists at the path the new note would be   *)
(* written to is left unchanged, and a note is refused as existing only    *)
(* when a file exists at that target path.                                 *)
C23_NewNoteNeverOverwrites ==
    [][NewNoteStep => ExistingFilesKept /\ RefusedOnlyAtTarget]_vars

\* C23, first half alone: no existing file is overwritten by a new note
C23_ExistingFilesKept == [][NewNoteStep => ExistingFilesKept]_vars

\* C23, second half alone: a refusal means a file is at the target path
C23_RefusedOnlyAtTarget == [][NewNoteStep => RefusedOnlyAtTarget]_vars

(* C24: unsaved edits are never dropped without the user's decision: while *)
(* unsaved_changes is true the buffer is replaced, or the window closes,   *)
(* only after handle_unsaved_changes returned YES (the note was saved) or  *)
(* NO (Don't Save), also when the selection becomes empty.                 *)
C24_EditsDroppedOnlyOnDecision == ~app.dropped

\* the edits were dropped when the selection became empty
C24_DroppedOnUnselect == app.dropped /\ app.event = "unselect"

\* the edits of the current note were dropped when another note was renamed
C24_DroppedOnRename == app.dropped /\ app.event = "rename"

\* edits are dropped unasked by no other handler than these
C24_DroppedOnlyByEmptySelection ==
    app.dropped => app.event \in {"unselect", "rename"}

\* the opening tag the serializer writes for item i of tree t
OpeningTag(t, i) ==
    <<"<">> \o TagChars(t[i].tag) \o AttribText(t[i].attrib) \o <<">">>

(* C25: the annotator and the converter agree on the depth encoding: the   *)
(* opening tag of an item the annotator tagged with a level d of 0..3 is   *)
(* the text the pattern of depth d starts with, so every item of a list    *)
(* nested at most four levels deep comes out on a bulleted line, also      *)
(* when the item carries another attribute.                                *)
C25_EveryItemGetsItsBullet ==
    /\ (pc # "markdown" /\ AllStyled) =>
          \A i \in NoteItems :
              OpeningTag(NoteTree, i) = LevelTag(ItemDepth(NoteTree, i))
    /\ (pc = "done" /\ AllStyled) =>
          \A i \in NoteItems :
              \E p \in Positions(html_text, Letters[i]) :
                  ItemLineAt(html_text, p, ItemDepth(NoteTree, i))
    /\ (pc = "done" /\ md_text = AttrItem) =>
          /\ OccursExactly(html_text, BulletLine(0) \o <<"A">>)
          /\ OccursExactly(html_text, BulletLine(1) \o <<"B">>)

\* C25 for the items that carry nothing but their level
C25_PlainItemsGetTheirBullet ==
    /\ (pc # "markdown" /\ AllStyled) =>
          \A i \in NoteItems :
              OpeningTag(NoteTree, i) = LevelTag(ItemDepth(NoteTree, i))
    /\ (pc = "done" /\ AllStyled) =>
          \A i \in NoteItems :
              \E p \in Positions(html_text, Letters[i]) :
                  ItemLineAt(html_text, p, ItemDepth(NoteTree, i))
    /\ (pc = "done" /\ md_text = AttrItem) =>
          /\ OccursExactly(html_text, BulletLine(0) \o <<"A">>)
          /\ ~OccursExactly(html_text, BulletLine(1) \o <<"B">>)

\* the note with the item that carries an id has been converted
C25_Witness ==
    /\ pc = "done"
    /\ md_text = AttrItem
    /\ OccursExactly(html_text, <<"B">>)
    /\ ~Occurs(html_text, <<"<", "l", "i">>)

\* what save_current_note makes of window w when the write succeeds (ok)
\* or fails
SaveResult(w, s, ok) ==
    /\ w.current_note_filename = None => ~s.returned /\ s.files = w.files
    /\ (w.current_note_filename # None /\ ok) =>
          /\ s.returned
          /\ s.files = [w.files EXCEPT ![w.current_note_filename] = w.editor_buffer]
          /\ ~s.unsaved_changes
    /\ (w.current_note_filename # None /\ ~ok) =>
          /\ ~s.returned
          /\ s.files = w.files
          /\ s.unsaved_changes = w.unsaved_changes
          /\ s.current_note_filename = w.current_note_filename

\* the user chose Save and the write failed
SaveChosenAndFailed(w) == [w EXCEPT !.answers = <<"YES">>, !.io = <<FALSE>>]

\* the step is one activation of the save action
SaveStep == app'.event = "save" /\ app'.events = app.events + 1

\* a failed save leaves the note, the flag and the files; a save that
\* succeeded wrote the buffer and cleared the flag
Saved ==
    IF app'.message.title = "Error: Could not save note"
    THEN /\ app'.files = app.files
         /\ app'.unsaved_changes = app.unsaved_changes
         /\ app'.current_note_filename = app.current_note_filename
    ELSE /\ app'.files =
                [app.files EXCEPT ![app.current_note_filename] = app.editor_buffer]
         /\ ~app'.unsaved_changes
         /\ app'.current_note_filename = app.current_note_filename

(* C26: save_current_note returns False and writes nothing when no note is *)
(* current; when the write succeeds the file holds the buffer text,        *)
(* unsaved_changes is false and it returns True; when the write fails it   *)
(* returns False and leaves unsaved_changes and current_note_filename; and *)
(* handle_unsaved_changes returns CANCEL when the user chose Save and the  *)
(* save failed.                                                            *)
C26_SaveNeverLosesOnFailure ==
    /\ [](app.is_open =>
             /\ \A ok \in BOOLEAN :
                    SaveResult(app, save_current_note([app EXCEPT !.io = <<ok>>]), ok)
             /\ app.unsaved_changes =>
                    handle_unsaved_changes(SaveChosenAndFailed(app)).response
                        = "CANCEL")
    /\ [][SaveStep => Saved]_vars

\* the save action was activated and the write failed
C26_Witness ==
    /\ app.event = "save"
    /\ app.message.title = "Error: Could not save note"
    /\ app.unsaved_changes /\ app.save_enabled
    /\ app.files[app.current_note_filename] # app.editor_buffer

\* the save action was activated and the file holds the buffer text
C26_WitnessSaved ==
    /\ app.event = "save"
    /\ app.message = NoMessage
    /\ ~app.unsaved_changes
    /\ app.files[app.current_note_filename] = <<"x">>

\* another row was clicked, the user chose Save, the save failed and then
\* Cancel: the note and its edits are still there
C26_WitnessCancel ==
    /\ app.event = "click"
    /\ app.message.title = "Error: Could not save note"
    /\ app.unsaved_changes
    /\ app.selected = NoteRow(app.current_note_filename)
    /\ app.editor_buffer = <<"x">>

\* the step is one run of _on_rename_item_requested for the note of the menu
RenameStep == app'.event = "rename" /\ app'.events = app.events + 1

\* the dialogs _on_rename_item_requested shows before it gives up
RenameRefusals ==
    {"Error: New title cannot be empty", "Error: already exists", "Save Failed",
     "Error: Could not rename note"}

\* the content of the note of the menu once its unsaved edits are saved
ContentToMove ==
    IF app.menu = app.current_note_filename /\ app.unsaved_changes
    THEN app.editor_buffer ELSE app.files[app.menu]

\* no file is renamed: the same paths hold files, with the same content but
\* for the saved edits of the note of the menu, and the current note is
\* the same
NothingRenamed ==
    /\ \A p \in NotePaths :
          \/ app'.files[p] = app.files[p]
          \/ p = app.menu /\ app'.files[p] = ContentToMove
    /\ app'.current_note_filename = app.current_note_filename

\* the note of the menu is now at path new of the same folder, where no
\* file was, and no other file has changed
RenamedTo(new) ==
    /\ new # app.menu /\ dirname(new) = dirname(app.menu)
    /\ app.files[new] = NoFile
    /\ app'.files = [app.files EXCEPT ![app.menu] = NoFile, ![new] = ContentToMove]
    /\ IF app.menu = app.current_note_filename
       THEN app'.current_note_filename = new /\ ~app'.unsaved_changes
       ELSE app'.current_note_filename = app.current_note_filename

(* C27: _on_rename_item_requested never overwrites an existing file and    *)
(* renames at most the chosen note, once: when the new title is empty,     *)
(* sanitizes to the old name, names an existing path, or the save of the   *)
(* unsaved edits or the rename fails, no file is renamed and               *)
(* current_note_filename is unchanged; after a rename of the current note  *)
(* current_note_filename is the new path and unsaved_changes is false.     *)
C27_RenameOnceOrNothing ==
    [][RenameStep =>
          /\ NothingRenamed \/ \E new \in NotePaths : RenamedTo(new)
          /\ app'.message.title \in RenameRefusals => NothingRenamed]_vars

\* the current note was renamed from a.mk to b.mk with its edits saved
C27_Witness ==
    /\ app.event = "rename"
    /\ app.files[<<"", <<"a", ".", "m", "k">>>>] = NoFile
    /\ app.files[<<"", <<"b", ".", "m", "k">>>>] = <<"x">>
    /\ app.current_note_filename = <<"", <<"b", ".", "m", "k">>>>
    /\ ~app.unsaved_changes

\* the rename was refused because b.mk exists
C27_WitnessExists ==
    /\ app.event = "rename"
    /\ app.message = [title |-> "Error: already exists", about |-> <<"b", ".", "m", "k">>]
    /\ app.files[<<"", <<"a", ".", "m", "k">>>>] # NoFile
    /\ app.files[<<"", <<"b", ".", "m", "k">>>>] # NoFile

\* the edits were saved and the rename failed
C27_WitnessSavedNotRenamed ==
    /\ app.event = "rename"
    /\ app.message.title = "Error: Could not rename note"
    /\ app.current_note_filename # None
    /\ app.files[app.current_note_filename] = <<"x">>
    /\ ~app.unsaved_changes

(* C28: after every handler of a user interface event has returned, the    *)
(* save action is enabled exactly when unsaved_changes is true and a note  *)
(* is current; in particular unsaved_changes is never true while no note   *)
(* is open.                                                                *)
C28_SaveEnabledIffUnsavedNote ==
    /\ app.save_enabled <=>
           (app.unsaved_changes /\ app.current_note_filename # None)
    /\ app.unsaved_changes => app.current_note_filename # None

\* the save action is enabled for a note with unsaved edits
C28_Witness ==
    /\ app.event = "type"
    /\ app.save_enabled
    /\ app.unsaved_changes
    /\ app.current_note_filename = <<"f", <<"a", ".", "m", "k">>>>
    /\ app.title_label = NoteTitle(<<"f", <<"a", ".", "m", "k">>>>, TRUE)

\* the save action was disabled again when the edits were not saved and
\* another note was opened
C28_WitnessDisabled ==
    /\ app.event = "click"
    /\ ~app.save_enabled
    /\ ~app.unsaved_changes
    /\ app.current_note_filename # None
    /\ app.files[app.current_note_filename] = app.editor_buffer
    /\ \E p \in NotePaths : app.files[p] = <<"x">>

\* _on_tree_selection_changed has finished for a selected note: the note
\* was read into the buffer and is the selected and the current one
NoteOpened(w) ==
    /\ w.event \in {"click", "button press"}
    /\ w.loaded # None
    /\ w.selected = NoteRow(w.loaded)
    /\ w.current_note_filename = w.loaded

(* C29: loading is not an edit: when _on_tree_selection_changed has        *)
(* finished for a selected note, unsaved_changes is false and the title    *)
(* label shows the title of that note without "*", in preview mode as in   *)
(* edit mode; and while preview_mode is true a change of the buffer does   *)
(* not set unsaved_changes.                                                *)
C29_LoadingIsNotAnEdit ==
    /\ NoteOpened(app) =>
           /\ ~app.unsaved_changes
           /\ app.title_label = NoteTitle(app.current_note_filename, FALSE)
    /\ (app.is_open /\ app.preview_mode) =>
           on_buffer_changed(app).unsaved_changes = app.unsaved_changes

\* C29 without the title: the flag is false after a note was opened, and
\* no change of the buffer sets it in preview mode
C29_FlagFalseAfterLoading ==
    /\ NoteOpened(app) => ~app.unsaved_changes /\ ~app.save_enabled
    /\ (app.is_open /\ app.preview_mode) =>
           on_buffer_changed(app).unsaved_changes = app.unsaved_changes

\* C29 with the title in edit mode, for a note that is not empty
C29_TitleInEditMode ==
    (NoteOpened(app) /\ ~app.preview_mode /\ app.editor_buffer # <<>>) =>
        app.title_label = NoteTitle(app.current_note_filename, FALSE)

\* a note was opened in preview mode and the label shows another title
C29_StaleTitleInPreview ==
    /\ NoteOpened(app)
    /\ app.preview_mode
    /\ app.current_note_filename = <<"f", <<"a", ".", "m", "k">>>>
    /\ app.title_label = NoteTitle(<<"", <<"a", ".", "m", "k">>>>, FALSE)

\* an empty note was opened in edit mode and the label shows no note
C29_StaleTitleOfEmptyNote ==
    /\ NoteOpened(app)
    /\ ~app.preview_mode
    /\ app.editor_buffer = <<>>
    /\ app.title_label # NoteTitle(app.current_note_filename, FALSE)

====
